---- MODULE Spec2Model ----
(***************************************************************************)
(* ESL Vocabulary Explorer: the quiz session (QuizModal), the client-side  *)
(* assessment (generateAssessmentFromTerms, AssessmentModal and its        *)
(* question views) and the App handlers that open, close and log them.     *)
(*                                                                         *)
(* JavaScript strings are sequences of one-character strings, so that      *)
(* trim() and toLowerCase() are computed and not assumed.  Math.random()   *)
(* is a tape of draws d in 0..RandScale-1 standing for d / RandScale; the  *)
(* tape is read cyclically, one draw per call.                             *)
(***************************************************************************)
EXTENDS Integers, Sequences, FiniteSets, TLC

VARIABLES
    activeModal,        \* App.activeModal: "none" | "quiz" | "assessment"
    modalData,          \* App.modalData: the terms handed to the open modal
    tape,               \* the Math.random() draws read by the latest generation
    lastCall,           \* history: the latest call of generateAssessmentFromTerms
                        \* or shuffleArray in this session, with what it returned
    gameState,          \* QuizModal.gameState
    currentIndex,       \* QuizModal.currentIndex (0-based, as in the source)
    wrongAnswers,       \* QuizModal.wrongAnswers
    shuffledQuestions,  \* QuizModal.shuffledQuestions
    runLog,             \* history: the isCorrect of every call of this run, in order
    completions,        \* the calls of onQuizComplete so far: <<score, total>>
    quizHistory,        \* localStorage 'quizHistory'
    assessmentData,     \* AssessmentModal.assessmentData (Null or the questions)
    status,             \* AssessmentModal.status
    answers,            \* AssessmentModal.answers: question id -> answer
    score,              \* AssessmentModal.score
    library,            \* App.library as rendered: term key -> TermData
    isLibraryLoaded,    \* App.isLibraryLoaded as rendered
    results,            \* App.results: the TermData shown on the result cards
    pendingFetches,     \* the AI requests awaited by handleSearch and the detail fetches
    queuedUpdates,      \* state updates queued by an effect, applied by the next render
    effectsDue,         \* the effects of the latest commit that have not run yet
    vocabLibrary,       \* localStorage 'vocabLibrary'
    firstWrite,         \* history: the first setItem('vocabLibrary', ..) of this session
    savedAtMount,       \* history: localStorage 'vocabLibrary' when the App mounted
    now,                \* Date.now()
    lastStatusChange    \* history: term key -> what the latest status change set

vars == <<activeModal, modalData, tape, lastCall, gameState, currentIndex, wrongAnswers,
          shuffledQuestions, runLog, completions, quizHistory, assessmentData, status,
          answers, score, library, isLibraryLoaded, results, pendingFetches,
          queuedUpdates, effectsDue, vocabLibrary, firstWrite, savedAtMount, now,
          lastStatusChange>>

libraryVars == <<library, isLibraryLoaded, results, pendingFetches, queuedUpdates,
                 effectsDue, vocabLibrary, firstWrite, savedAtMount, now,
                 lastStatusChange>>

quizVars == <<gameState, currentIndex, wrongAnswers, shuffledQuestions, runLog>>
assessVars == <<assessmentData, status, answers, score>>

(***************************************************************************)
(* Bounds of the model.                                                    *)
(***************************************************************************)
RandScale == 4          \* Math.random() takes the values 0/4 .. 3/4
MaxTapeLen == 1         \* draws on a tape before it repeats
MaxQuizTerms == 3       \* terms handed to one quiz
MaxPasses == 1          \* passes logged before a quiz opens (a redeem run: one more)
MaxComposeTerms == 20   \* terms handed to the composer alone
MaxShuffleLen == 3      \* elements of a shuffled sequence (at most RandScale)
MaxTextLen == 2         \* characters of a text typed into one graded input

Null == <<>>            \* assessmentData before it is generated
NoCall == [fn |-> "none"]
Undefined == [type |-> "undefined"]

Min(a, b) == IF a < b THEN a ELSE b

(***************************************************************************)
(* Strings.                                                                *)
(***************************************************************************)
Str(s) == [type |-> "string", value |-> s]

toLowerCaseChar(c) ==
    CASE c = "A" -> "a"
      [] c = "B" -> "b"
      [] c = "C" -> "c"
      [] c = "D" -> "d"
      [] OTHER -> c

toLowerCase(s) == [i \in 1..Len(s) |-> toLowerCaseChar(s[i])]

IsWhiteSpace(c) == c = " "

RECURSIVE trimStart(_)
trimStart(s) ==
    IF s # <<>> /\ IsWhiteSpace(Head(s)) THEN trimStart(Tail(s)) ELSE s

RECURSIVE trimEnd(_)
trimEnd(s) ==
    IF s # <<>> /\ IsWhiteSpace(s[Len(s)])
    THEN trimEnd(SubSeq(s, 1, Len(s) - 1))
    ELSE s

trim(s) == trimEnd(trimStart(s))

(***************************************************************************)
(* Math.random() and the Fisher-Yates shuffle.                             *)
(***************************************************************************)
Tapes(len) == UNION {[1..n -> 0..(RandScale - 1)] : n \in 1..len}

\* the draw of the (pos+1)-th call of Math.random()
Draw(t, pos) == t[(pos % Len(t)) + 1]

\* a faulty variant: the element at i is overwritten and never moved to j
SwapOverwriting(a, i, j) == [a EXCEPT ![i + 1] = a[j + 1]]

\* [a[i], a[j]] = [a[j], a[i]] with 0-based i, j
Swap(a, i, j) == [a EXCEPT ![i + 1] = a[j + 1], ![j + 1] = a[i + 1]]

RECURSIVE FisherYates(_, _, _, _)
FisherYates(newArray, idx, t, pos) ==
    IF idx = 0 THEN newArray
    ELSE LET randomIndex == (Draw(t, pos) * idx) \div RandScale
         IN FisherYates(Swap(newArray, idx - 1, randomIndex), idx - 1, t, pos + 1)

\* shuffles a copy of array with the draws pos, pos+1, ... of the tape
shuffleArray(array, t, pos) == FisherYates(array, Len(array), t, pos)

(***************************************************************************)
(* shuffleArray on array objects.  A heap is the sequence of the arrays    *)
(* that exist, an array object is its index in the heap: the caller keeps  *)
(* the index of the array it handed in and sees what the call left there.  *)
(***************************************************************************)
\* a faulty variant: newArray is the input array itself
newArrayAliased(heap, array) == [heap |-> heap, ref |-> array]

\* const newArray = [...array]: a new array object with the elements of array
newArrayCopied(heap, array) ==
    [heap |-> Append(heap, heap[array]), ref |-> Len(heap) + 1]

\* the heap after shuffleArray(array) and the array object it returns; the loop
\* writes to newArray alone
shuffleArrayOn(heap, array, t, pos) ==
    LET newArray == newArrayCopied(heap, array)
    IN [heap |-> [newArray.heap EXCEPT
                     ![newArray.ref] = FisherYates(newArray.heap[newArray.ref],
                                                   Len(heap[array]), t, pos)],
        result |-> newArray.ref]

(***************************************************************************)
(* Terms (types.ts TermData).  details maps a meaning index to its         *)
(* Details; only the examples are read by the code modelled here.          *)
(***************************************************************************)
NoDetails == <<>>
Details0(examples) == (0 :> [examples |-> examples])
\* the details of the k-th meaning alone (0-based), as fetchMeaningDetails stores them
DetailsAt(k, examples) == (k :> [examples |-> examples])

TermData(text, definitions, details) ==
    [term |-> text,
     meanings |-> [i \in 1..Len(definitions) |-> [definition |-> definitions[i]]],
     details |-> details]

\* term.details?.[0]?.examples?.[0] is a string (possibly the empty one)
hasFirstExample(term) ==
    /\ 0 \in DOMAIN term.details
    /\ Len(term.details[0].examples) >= 1

firstExample(term) == term.details[0].examples[1]

\* if (example): the example exists and is not the empty string
exampleIsTruthy(term) == hasFirstExample(term) /\ firstExample(term) # <<>>

(***************************************************************************)
(* String.prototype.replace as generateAssessmentFromTerms uses it.        *)
(***************************************************************************)
IsPrefixAt(s, i, pat) ==
    /\ i + Len(pat) - 1 <= Len(s)
    /\ \A k \in 1..Len(pat) : s[i + k - 1] = pat[k]

\* s.replace(/\*\*/g, '')
RECURSIVE stripEmphasisFrom(_, _)
stripEmphasisFrom(s, i) ==
    IF i > Len(s) THEN <<>>
    ELSE IF IsPrefixAt(s, i, <<"*", "*">>) THEN stripEmphasisFrom(s, i + 2)
    ELSE <<s[i]>> \o stripEmphasisFrom(s, i + 1)

stripEmphasis(s) == stripEmphasisFrom(s, 1)

Blank == <<"_", "_", "_", "_", "_">>

(***************************************************************************)
(* new RegExp(pat, 'ig'): the term text is read as a pattern.  Of the       *)
(* syntax characters the term texts of this model hold '.' (any character) *)
(* and '+' (one or more of the atom before it, greedy); every other         *)
(* character stands for itself, compared without case.                     *)
(***************************************************************************)
\* SyntaxError "Nothing to repeat": a '+' with no atom before it
regExpThrows(pat) ==
    \E i \in 1..Len(pat) : pat[i] = "+" /\ (i = 1 \/ pat[i - 1] = "+")

\* the atoms of a pattern that compiles, from its i-th character on
RECURSIVE regExpAtoms(_, _)
regExpAtoms(pat, i) ==
    IF i > Len(pat) THEN <<>>
    ELSE IF i < Len(pat) /\ pat[i + 1] = "+"
         THEN <<[c |-> pat[i], plus |-> TRUE]>> \o regExpAtoms(pat, i + 2)
    ELSE <<[c |-> pat[i], plus |-> FALSE]>> \o regExpAtoms(pat, i + 1)

atomMatches(atom, ch) ==
    atom.c = "." \/ toLowerCaseChar(atom.c) = toLowerCaseChar(ch)

\* the number of characters from s[i] on that the atom matches one by one
RECURSIVE atomRun(_, _, _)
atomRun(atom, s, i) ==
    IF i <= Len(s) /\ atomMatches(atom, s[i]) THEN 1 + atomRun(atom, s, i + 1) ELSE 0

\* the backtracking match of atoms k.. at s[i]: the index after the match, or 0
\* when there is none
RECURSIVE matchEnd(_, _, _, _)
matchEnd(atoms, k, s, i) ==
    IF k > Len(atoms) THEN i
    ELSE IF ~atoms[k].plus
         THEN IF i <= Len(s) /\ atomMatches(atoms[k], s[i])
              THEN matchEnd(atoms, k + 1, s, i + 1)
              ELSE 0
    ELSE LET taken == {n \in 1..atomRun(atoms[k], s, i) :
                          matchEnd(atoms, k + 1, s, i + n) # 0}
         IN IF taken = {} THEN 0
            ELSE matchEnd(atoms, k + 1, s,
                          i + (CHOOSE n \in taken : \A m \in taken : m <= n))

\* the 'g' replacement from s[i] on; the empty pattern matches before every
\* character and at the end
RECURSIVE replaceAllFrom(_, _, _)
replaceAllFrom(s, i, atoms) ==
    IF atoms = <<>>
    THEN IF i > Len(s) THEN Blank
         ELSE Blank \o <<s[i]>> \o replaceAllFrom(s, i + 1, atoms)
    ELSE IF i > Len(s) THEN <<>>
    ELSE IF matchEnd(atoms, 1, s, i) # 0
         THEN Blank \o replaceAllFrom(s, matchEnd(atoms, 1, s, i), atoms)
    ELSE <<s[i]>> \o replaceAllFrom(s, i + 1, atoms)

\* s.replace(new RegExp(pat, 'ig'), '_____') for a pattern that compiles
replaceTermFrom(s, i, pat) == replaceAllFrom(s, i, regExpAtoms(pat, 1))

fillSentence(example, text) == replaceTermFrom(stripEmphasis(example), 1, text)

(***************************************************************************)
(* Questions (types.ts AssessmentQuestion).  Every question is a record    *)
(* of the same shape; the fields a variant does not have are empty.        *)
(***************************************************************************)
NoPairs == <<>>

Question(id, type) ==
    [id |-> id, type |-> type, text |-> <<>>, options |-> <<>>,
     correctAnswer |-> <<>>, items |-> <<>>, targets |-> <<>>,
     correctPairs |-> NoPairs, modelAnswer |-> <<>>]

ItemId(i) == <<"item", i>>
TargetId(i) == <<"target", i>>

\* a faulty variant: every item is paired with the target after its own
pairItemsShifted(matchItems, matchTargets) ==
    [id \in {matchItems[i].id : i \in 1..Len(matchItems)} |->
        LET i == CHOOSE k \in 1..Len(matchItems) : matchItems[k].id = id
        IN matchTargets[(i % Len(matchTargets)) + 1].id]

\* correctPairs[item.id] = matchTargets[i].id for every item
pairItems(matchItems, matchTargets) ==
    [id \in {matchItems[i].id : i \in 1..Len(matchItems)} |->
        LET i == CHOOSE k \in 1..Len(matchItems) : matchItems[k].id = id
        IN matchTargets[i].id]

\* the match question built from matchTerms = shuffledTerms.slice(0, 4)
matchQuestion(matchTerms) ==
    LET matchItems == [i \in 1..Len(matchTerms) |->
                          [id |-> ItemId(i - 1), term |-> matchTerms[i].term]]
        matchTargets == [i \in 1..Len(matchTerms) |->
                          [id |-> TargetId(i - 1),
                           definition |-> matchTerms[i].meanings[1].definition]]
    IN [Question(<<"match-q", 1>>, "match") EXCEPT
            !.items = matchItems,
            !.targets = matchTargets,
            !.correctPairs = pairItems(matchItems, matchTargets)]

mcqQuestion(index, term, options) ==
    [Question(<<"mcq", index>>, "mcq") EXCEPT
        !.text = <<term.meanings[1].definition>>,
        !.options = options,
        !.correctAnswer = term.term]

fillQuestion(index, term) ==
    [Question(<<"fill", index>>, "fill-in-the-blank") EXCEPT
        !.text = fillSentence(firstExample(term), term.term),
        !.correctAnswer = term.term]

\* a faulty variant: every written question gets the id of the first
writtenQuestionUnnumbered(index, term) ==
    [Question(<<"written", 0>>, "written") EXCEPT
        !.text = term.term,
        !.modelAnswer = IF exampleIsTruthy(term) THEN firstExample(term)
                        ELSE <<"e.g., A sentence demonstrating the use of ">>
                             \o term.term \o <<".">>]

writtenQuestion(index, term) ==
    [Question(<<"written", index>>, "written") EXCEPT
        !.text = term.term,
        !.modelAnswer = IF exampleIsTruthy(term) THEN firstExample(term)
                        ELSE <<"e.g., A sentence demonstrating the use of ">>
                             \o term.term \o <<".">>]

slice(s, n) == SubSeq(s, 1, Min(n, Len(s)))

(***************************************************************************)
(* generateAssessmentFromTerms.  A run is the record                       *)
(* [questions, pos, threw]: the questions pushed so far, the number of     *)
(* Math.random() calls made so far, and whether an error was thrown: a     *)
(* TypeError (term.meanings[0] is undefined for a term without meanings)   *)
(* or the SyntaxError of new RegExp(term.term, 'ig').                      *)
(***************************************************************************)
\* a faulty variant: a term that was never explored is no distractor
distractorPoolOfExplored(shuffledTerms, term) ==
    SelectSeq(shuffledTerms, LAMBDA x : x.term # term.term /\ x.details # NoDetails)

distractorPool(shuffledTerms, term) ==
    SelectSeq(shuffledTerms, LAMBDA x : x.term # term.term)

\* a faulty variant: the written question too is made only for an explored term
termQuestionsWrittenIfExplored(shuffledTerms, index, t, run) ==
    LET term == shuffledTerms[index + 1]
        mcqTried == Len(shuffledTerms) >= 4
        others == distractorPool(shuffledTerms, term)
        shuffledOthers == shuffleArray(others, t, run.pos)
        distractors == [i \in 1..Min(3, Len(others)) |-> shuffledOthers[i].term]
        pos1 == IF mcqTried THEN run.pos + Len(others) ELSE run.pos
        mcqMade == mcqTried /\ Len(distractors) = 3
        threw == \/ mcqMade /\ term.meanings = <<>>
                 \/ exampleIsTruthy(term) /\ regExpThrows(term.term)
        options == shuffleArray(<<term.term>> \o distractors, t, pos1)
        pos2 == IF mcqMade /\ ~threw THEN pos1 + 4 ELSE pos1
        mcq == IF mcqMade /\ ~threw
               THEN <<mcqQuestion(index, term, options)>> ELSE <<>>
        fill == IF exampleIsTruthy(term)
                THEN <<fillQuestion(index, term)>> ELSE <<>>
    IN IF run.threw THEN run
       ELSE IF threw THEN [run EXCEPT !.threw = TRUE]
       ELSE [questions |-> run.questions \o mcq \o fill
                              \o (IF exampleIsTruthy(term)
                                  THEN <<writtenQuestion(index, term)>> ELSE <<>>),
             pos |-> pos2,
             threw |-> FALSE]

\* the body of shuffledTerms.forEach for one term
termQuestions(shuffledTerms, index, t, run) ==
    LET term == shuffledTerms[index + 1]
        mcqTried == Len(shuffledTerms) >= 4
        others == distractorPool(shuffledTerms, term)
        shuffledOthers == shuffleArray(others, t, run.pos)
        distractors == [i \in 1..Min(3, Len(others)) |-> shuffledOthers[i].term]
        pos1 == IF mcqTried THEN run.pos + Len(others) ELSE run.pos
        mcqMade == mcqTried /\ Len(distractors) = 3
        threw == \/ mcqMade /\ term.meanings = <<>>
                 \/ exampleIsTruthy(term) /\ regExpThrows(term.term)
        options == shuffleArray(<<term.term>> \o distractors, t, pos1)
        pos2 == IF mcqMade /\ ~threw THEN pos1 + 4 ELSE pos1
        mcq == IF mcqMade /\ ~threw
               THEN <<mcqQuestion(index, term, options)>> ELSE <<>>
        fill == IF exampleIsTruthy(term)
                THEN <<fillQuestion(index, term)>> ELSE <<>>
    IN IF run.threw THEN run
       ELSE IF threw THEN [run EXCEPT !.threw = TRUE]
       ELSE [questions |-> run.questions \o mcq \o fill
                              \o <<writtenQuestion(index, term)>>,
             pos |-> pos2,
             threw |-> FALSE]

RECURSIVE forEachTerm(_, _, _, _)
forEachTerm(shuffledTerms, index, t, run) ==
    IF index >= Len(shuffledTerms) \/ run.threw THEN run
    ELSE forEachTerm(shuffledTerms, index + 1, t,
                     termQuestions(shuffledTerms, index, t, run))

\* const shuffledTerms = shuffleArray(terms)
shuffledTermsOf(terms, t) == shuffleArray(terms, t, 0)

\* the question list before it is shuffled and cut
questionPool(terms, t) ==
    LET shuffledTerms == shuffledTermsOf(terms, t)
        matchTerms == slice(shuffledTerms, 4)
        matchTried == Len(shuffledTerms) >= 4
        threw == matchTried /\ \E i \in 1..4 : matchTerms[i].meanings = <<>>
        start == [questions |-> IF matchTried /\ ~threw
                                THEN <<matchQuestion(matchTerms)>> ELSE <<>>,
                  pos |-> Len(terms),
                  threw |-> threw]
    IN forEachTerm(shuffledTerms, 0, t, start)

MaxQuestions == 25

\* a faulty variant: the cap of 25 is forgotten
targetQuestionCountUncapped(numTerms) == ((numTerms * 12) \div 10) + 3

targetQuestionCount(numTerms) ==
    Min(((numTerms * 12) \div 10) + 3, MaxQuestions)

\* the caller's term list after generateAssessmentFromTerms(terms): the list is
\* handed to shuffleArray, and read by filter and length, which write nothing
termsAfterGenerate(terms, t) == shuffleArrayOn(<<terms>>, 1, t, 0).heap[1]

generateAssessmentFromTerms(terms, t) ==
    LET run == questionPool(terms, t)
        finalQuestions == slice(shuffleArray(run.questions, t, run.pos),
                                targetQuestionCount(Len(terms)))
    IN IF run.threw THEN [threw |-> TRUE, questions |-> <<>>]
       ELSE [threw |-> FALSE, questions |-> finalQuestions]

(***************************************************************************)
(* Grading (AssessmentModal.handleSubmit) and the verdicts of the views.   *)
(***************************************************************************)
Obj(m) == [type |-> "object", value |-> m]

\* const userAnswer = answers[q.id]
answerOf(ans, q) == IF q.id \in DOMAIN ans THEN ans[q.id] ELSE Undefined

\* userAnswer.trim() of the 'written' case is a TypeError for a truthy non-string
gradeThrows(q, userAnswer) ==
    /\ userAnswer.type # "undefined"
    /\ q.type = "written"
    /\ userAnswer.type # "string"

\* a faulty variant: only the items the user has paired are compared
allMatchedAnswered(correctPairs, m) ==
    \A itemId \in DOMAIN m :
        itemId \in DOMAIN correctPairs /\ m[itemId] = correctPairs[itemId]

\* Object.keys(correctPairs).every(itemId => userAnswer[itemId] === correctPairs[itemId])
allMatched(correctPairs, m) ==
    \A itemId \in DOMAIN correctPairs :
        itemId \in DOMAIN m /\ m[itemId] = correctPairs[itemId]

\* the switch of handleSubmit: isQuestionCorrect for an answer that is present
isQuestionCorrect(q, userAnswer) ==
    CASE q.type = "mcq" ->
            userAnswer.type = "string" /\ userAnswer.value = q.correctAnswer
      [] q.type = "fill-in-the-blank" ->
            /\ userAnswer.type = "string"
            /\ toLowerCase(trim(userAnswer.value)) = toLowerCase(q.correctAnswer)
      [] q.type = "match" ->
            userAnswer.type = "object" /\ allMatched(q.correctPairs, userAnswer.value)
      [] q.type = "written" ->
            /\ userAnswer.type = "string"
            /\ userAnswer.value # <<>>
            /\ trim(userAnswer.value) # <<>>
      [] OTHER -> FALSE

\* a faulty variant: no early return for a missing answer, and 'written' tests
\* userAnswer !== '' only
questionScoreUnguarded(q, userAnswer) ==
    IF userAnswer.type = "undefined"
    THEN IF q.type = "written" THEN 1 ELSE 0
    ELSE IF isQuestionCorrect(q, userAnswer) THEN 1 ELSE 0

\* the body of assessmentData.questions.forEach: 1 when correctCount++ runs
questionScore(q, userAnswer) ==
    IF userAnswer.type = "undefined" THEN 0
    ELSE IF isQuestionCorrect(q, userAnswer) THEN 1 ELSE 0

RECURSIVE correctCount(_, _)
correctCount(questions, ans) ==
    IF questions = <<>> THEN 0
    ELSE questionScore(Head(questions), answerOf(ans, Head(questions)))
         + correctCount(Tail(questions), ans)

submitThrows(questions, ans) ==
    \E i \in 1..Len(questions) : gradeThrows(questions[i], answerOf(ans, questions[i]))

\* MCQQuestionView: isCorrect
mcqViewIsCorrect(q, userAnswer) ==
    userAnswer.type = "string" /\ userAnswer.value = q.correctAnswer

\* a faulty variant: the typed text is compared untrimmed
fillViewIsCorrectUntrimmed(q, userAnswer) ==
    /\ userAnswer.type = "string"
    /\ toLowerCase(userAnswer.value) = toLowerCase(q.correctAnswer)

\* FillBlankQuestionView: isCorrect (undefined?.trim() is undefined)
fillViewIsCorrect(q, userAnswer) ==
    /\ userAnswer.type = "string"
    /\ toLowerCase(trim(userAnswer.value)) = toLowerCase(q.correctAnswer)

\* MatchQuestionView: isCorrect
matchViewIsCorrect(q, isSubmitted, userAnswer) ==
    IF ~isSubmitted \/ userAnswer.type # "object" THEN FALSE
    ELSE IF Cardinality(DOMAIN userAnswer.value) < Cardinality(DOMAIN q.correctPairs)
         THEN FALSE
         ELSE \A itemId \in DOMAIN q.correctPairs :
                  /\ itemId \in DOMAIN userAnswer.value
                  /\ userAnswer.value[itemId] = q.correctPairs[itemId]

\* WrittenQuestionView: isCorrect
writtenViewIsCorrect(q, userAnswer) ==
    /\ userAnswer.type = "string"
    /\ userAnswer.value # <<>>
    /\ trim(userAnswer.value) # <<>>

\* the isCorrect a question's view hands to its QuestionWrapper
viewIsCorrect(q, isSubmitted, userAnswer) ==
    CASE q.type = "mcq" -> mcqViewIsCorrect(q, userAnswer)
      [] q.type = "fill-in-the-blank" -> fillViewIsCorrect(q, userAnswer)
      [] q.type = "match" -> matchViewIsCorrect(q, isSubmitted, userAnswer)
      [] q.type = "written" -> writtenViewIsCorrect(q, userAnswer)
      [] OTHER -> FALSE

(***************************************************************************)
(* QuizModal.                                                              *)
(***************************************************************************)
hasTerm(list, text) == \E i \in 1..Len(list) : list[i].term = text

\* a faulty variant: the term is appended without looking for its text
recordWrongAgain(prev, currentTerm) == Append(prev, currentTerm)

\* the updater of setWrongAnswers
recordWrong(prev, currentTerm) ==
    IF ~hasTerm(prev, currentTerm.term) THEN Append(prev, currentTerm) ELSE prev

\* a faulty variant: the last answer is left out of the final score
finalWrongAnswersStale(wrong, currentTerm, isCorrect) == wrong

\* finalWrongAnswers of the last call, computed from the rendered wrongAnswers
finalWrongAnswers(wrong, currentTerm, isCorrect) ==
    IF ~isCorrect /\ ~hasTerm(wrong, currentTerm.term)
    THEN Append(wrong, currentTerm)
    ELSE wrong

HistoryCap == 50

\* a faulty variant: the first 50 attempts are kept
appendAttemptKeepingOldest(history, newAttempt) ==
    LET all == Append(history, newAttempt)
    IN IF Len(all) > HistoryCap THEN SubSeq(all, 1, HistoryCap) ELSE all

\* [...history, newAttempt].slice(-50)
appendAttempt(history, newAttempt) ==
    LET all == Append(history, newAttempt)
    IN IF Len(all) > HistoryCap
       THEN SubSeq(all, Len(all) - HistoryCap + 1, Len(all))
       ELSE all

QuizUnmounted ==
    /\ gameState' = "playing"
    /\ currentIndex' = 0
    /\ wrongAnswers' = <<>>
    /\ shuffledQuestions' = <<>>
    /\ runLog' = <<>>

AssessmentUnmounted ==
    /\ assessmentData' = Null
    /\ status' = "loading"
    /\ answers' = <<>>
    /\ score' = 0

\* App.handleStartQuiz, then the mount of QuizModal and its isOpen effect
handleStartQuiz(type, data, t) ==
    /\ activeModal = "none"
    /\ Len(completions) < MaxPasses
    /\ activeModal' = "quiz"
    /\ modalData' = [type |-> type, questions |-> data]
    /\ gameState' = "playing"
    /\ currentIndex' = 0
    /\ wrongAnswers' = <<>>
    /\ shuffledQuestions' = shuffleArray(data, t, 0)
    /\ runLog' = <<>>
    /\ UNCHANGED <<tape, lastCall, completions, quizHistory>>
    /\ UNCHANGED assessVars
    /\ UNCHANGED libraryVars

handleNextQuestion(isCorrect) ==
    /\ activeModal = "quiz"
    /\ gameState = "playing"
    /\ currentIndex < Len(shuffledQuestions)
    /\ LET currentTerm == shuffledQuestions[currentIndex + 1]
           finalScore == Len(shuffledQuestions)
                         - Len(finalWrongAnswers(wrongAnswers, currentTerm, isCorrect))
           attempt == [quizType |-> modalData.type, score |-> finalScore,
                       total |-> Len(shuffledQuestions)]
       IN /\ wrongAnswers' = IF ~isCorrect
                             THEN recordWrong(wrongAnswers, currentTerm)
                             ELSE wrongAnswers
          /\ IF currentIndex + 1 < Len(shuffledQuestions)
             THEN /\ currentIndex' = currentIndex + 1
                  /\ UNCHANGED <<gameState, completions, quizHistory>>
             ELSE /\ completions' = Append(completions, attempt)
                  /\ quizHistory' = appendAttempt(quizHistory, attempt)
                  /\ gameState' = "results"
                  /\ UNCHANGED currentIndex
    /\ runLog' = Append(runLog, isCorrect)
    /\ UNCHANGED <<activeModal, modalData, tape, lastCall, shuffledQuestions>>
    /\ UNCHANGED assessVars
    /\ UNCHANGED libraryVars

\* a faulty variant: the redeem run takes every question of the quiz again
handleRedeemAll(t) ==
    /\ activeModal = "quiz"
    /\ gameState = "results"
    /\ Len(wrongAnswers) > 0
    /\ Len(completions) <= MaxPasses
    /\ shuffledQuestions' = shuffleArray(modalData.questions, t, 0)
    /\ runLog' = <<>>
    /\ wrongAnswers' = <<>>
    /\ currentIndex' = 0
    /\ gameState' = "playing"
    /\ UNCHANGED <<activeModal, modalData, tape, lastCall, completions, quizHistory>>
    /\ UNCHANGED assessVars
    /\ UNCHANGED libraryVars

\* a faulty variant: the button is rendered in 'results' whatever was answered
handleRedeemAlways(t) ==
    /\ activeModal = "quiz"
    /\ gameState = "results"
    /\ Len(completions) <= MaxPasses
    /\ shuffledQuestions' = shuffleArray(wrongAnswers, t, 0)
    /\ runLog' = <<>>
    /\ wrongAnswers' = <<>>
    /\ currentIndex' = 0
    /\ gameState' = "playing"
    /\ UNCHANGED <<activeModal, modalData, tape, lastCall, completions, quizHistory>>
    /\ UNCHANGED assessVars
    /\ UNCHANGED libraryVars

\* the button is rendered only in 'results' with wrongAnswers.length > 0
handleRedeem(t) ==
    /\ activeModal = "quiz"
    /\ gameState = "results"
    /\ Len(wrongAnswers) > 0
    /\ Len(completions) <= MaxPasses
    /\ shuffledQuestions' = shuffleArray(wrongAnswers, t, 0)
    /\ runLog' = <<>>
    /\ wrongAnswers' = <<>>
    /\ currentIndex' = 0
    /\ gameState' = "playing"
    /\ UNCHANGED <<activeModal, modalData, tape, lastCall, completions, quizHistory>>
    /\ UNCHANGED assessVars
    /\ UNCHANGED libraryVars

\* a faulty variant: closing a quiz that is being played logs the score so far
closeQuizLoggingPartial ==
    /\ activeModal = "quiz"
    /\ activeModal' = "none"
    /\ QuizUnmounted
    /\ LET attempt == [quizType |-> modalData.type,
                       score |-> currentIndex - Len(wrongAnswers),
                       total |-> Len(shuffledQuestions)]
       IN IF gameState = "playing"
          THEN /\ completions' = Append(completions, attempt)
               /\ quizHistory' = appendAttempt(quizHistory, attempt)
          ELSE UNCHANGED <<completions, quizHistory>>
    /\ UNCHANGED <<modalData, tape, lastCall>>
    /\ UNCHANGED assessVars
    /\ UNCHANGED libraryVars

\* onClose={() => setActiveModal(null)} of the quiz: the modal unmounts
closeQuiz ==
    /\ activeModal = "quiz"
    /\ activeModal' = "none"
    /\ QuizUnmounted
    /\ UNCHANGED <<modalData, tape, lastCall, completions, quizHistory>>
    /\ UNCHANGED assessVars
    /\ UNCHANGED libraryVars

(***************************************************************************)
(* AssessmentModal.                                                        *)
(***************************************************************************)
\* App.handleStartAssessment: the modal mounts in its initial state
handleStartAssessment(selectedTerms) ==
    /\ activeModal = "none"
    /\ Len(selectedTerms) # 0
    /\ activeModal' = "assessment"
    /\ modalData' = selectedTerms
    /\ AssessmentUnmounted
    /\ lastCall' = NoCall
    /\ UNCHANGED <<tape, completions, quizHistory>>
    /\ UNCHANGED quizVars
    /\ UNCHANGED libraryVars

\* a faulty variant: an assessment without questions is shown like any other
generationEffectWithoutAbort(t, generatedAssessment) ==
    /\ activeModal = "assessment"
    /\ status = "loading"
    /\ assessmentData = Null
    /\ Len(modalData) > 0
    /\ tape' = t
    /\ lastCall' = [fn |-> "generateAssessmentFromTerms", terms |-> modalData,
                    result |-> generatedAssessment]
    /\ IF generatedAssessment.threw
       THEN /\ activeModal' = "none"
            /\ AssessmentUnmounted
       ELSE /\ assessmentData' = generatedAssessment.questions
            /\ status' = "taking"
            /\ answers' = <<>>
            /\ score' = 0
            /\ UNCHANGED activeModal
    /\ modalData' = termsAfterGenerate(modalData, t)
    /\ UNCHANGED <<completions, quizHistory>>
    /\ UNCHANGED quizVars
    /\ UNCHANGED libraryVars

\* the effect on [isOpen, terms], for what generateAssessmentFromTerms did
generationEffectWith(t, generatedAssessment) ==
    /\ activeModal = "assessment"
    /\ status = "loading"
    /\ assessmentData = Null
    /\ Len(modalData) > 0
    /\ tape' = t
    /\ lastCall' = [fn |-> "generateAssessmentFromTerms", terms |-> modalData,
                    result |-> generatedAssessment]
    /\ IF generatedAssessment.threw \/ Len(generatedAssessment.questions) = 0
       THEN /\ activeModal' = "none"
            /\ AssessmentUnmounted
       ELSE /\ assessmentData' = generatedAssessment.questions
            /\ status' = "taking"
            /\ answers' = <<>>
            /\ score' = 0
            /\ UNCHANGED activeModal
    /\ modalData' = termsAfterGenerate(modalData, t)
    /\ UNCHANGED <<completions, quizHistory>>
    /\ UNCHANGED quizVars
    /\ UNCHANGED libraryVars

generationEffect(t) ==
    generationEffectWith(t, generateAssessmentFromTerms(modalData, t))

\* setAnswers(prev => ({ ...prev, [questionId]: answer }))
handleAnswerChange(questionId, answer) ==
    /\ activeModal = "assessment"
    /\ status = "taking"
    /\ answers' = (questionId :> answer) @@ answers
    /\ UNCHANGED <<activeModal, modalData, tape, lastCall, completions, quizHistory,
                   assessmentData, status, score>>
    /\ UNCHANGED quizVars
    /\ UNCHANGED libraryVars

\* MCQQuestionView: a click on one of the option buttons
mcqAnswer(q, option) == Str(option)

\* FillBlankQuestionView, WrittenQuestionView: onChange of the input
textAnswer(q, text) == Str(text)

\* MatchQuestionView.handleSelectChange
handleSelectChange(userAnswer, itemId, targetId) ==
    Obj((itemId :> targetId)
        @@ (IF userAnswer.type = "object" THEN userAnswer.value ELSE <<>>))

\* a faulty variant: grading uses the answers up
handleSubmitConsuming ==
    /\ activeModal = "assessment"
    /\ status = "taking"
    /\ assessmentData # Null
    /\ ~submitThrows(assessmentData, answers)
    /\ score' = correctCount(assessmentData, answers)
    /\ status' = "submitted"
    /\ answers' = <<>>
    /\ UNCHANGED <<activeModal, modalData, tape, lastCall, completions, quizHistory,
                   assessmentData>>
    /\ UNCHANGED quizVars
    /\ UNCHANGED libraryVars

handleSubmit ==
    /\ activeModal = "assessment"
    /\ status = "taking"
    /\ assessmentData # Null
    /\ ~submitThrows(assessmentData, answers)
    /\ score' = correctCount(assessmentData, answers)
    /\ status' = "submitted"
    /\ UNCHANGED <<activeModal, modalData, tape, lastCall, completions, quizHistory,
                   assessmentData, answers>>
    /\ UNCHANGED quizVars
    /\ UNCHANGED libraryVars

closeAssessment ==
    /\ activeModal = "assessment"
    /\ activeModal' = "none"
    /\ AssessmentUnmounted
    /\ UNCHANGED <<modalData, tape, lastCall, completions, quizHistory>>
    /\ UNCHANGED quizVars
    /\ UNCHANGED libraryVars

(***************************************************************************)
(* Inputs.                                                                 *)
(***************************************************************************)
\* library terms as the AI backend returned them: plain, upper-case, padded
\* with white space, and one that was never explored (no details)
Vocabulary ==
    << TermData(<<"a">>, <<"def-a">>, Details0(<< <<"*", "*", "A", "*", "*", " ", "x">> >>)),
       TermData(<<"B">>, <<"def-b">>, Details0(<< <<"b", " ", "y">> >>)),
       TermData(<<"c", " ">>, <<"def-c">>, Details0(<< <<"c", " ", "z">> >>)),
       TermData(<<"d">>, <<"def-d">>, NoDetails) >>

\* the selections of library terms an answered assessment is opened with
SessionTermLists ==
    {SubSeq(Vocabulary, i, j) :
        i \in 1..Len(Vocabulary),
        j \in 1..Len(Vocabulary)} \ {<<>>}

\* library entries of a quiz, in the order of the selection: two keys may hold
\* the same term text
QuizTerms ==
    << TermData(<<"a">>, <<"def-a">>, NoDetails),
       TermData(<<"a">>, <<"def-a2">>, NoDetails),
       TermData(<<"b">>, <<"def-b">>, NoDetails),
       TermData(<<"c">>, <<"def-c">>, NoDetails) >>

\* the selections of up to MaxQuizTerms of them
QuizLists ==
    LET picks == UNION {[1..n -> 1..Len(QuizTerms)] : n \in 1..MaxQuizTerms}
        ordered == {l \in picks : \A i, j \in 1..Len(l) : i < j => l[i] < l[j]}
    IN {[i \in 1..Len(l) |-> QuizTerms[l[i]]] : l \in ordered}

QuizTypes == {"spellingBee", "sentencePractice"}

\* what the user does with a control in an answered assessment: the expected
\* answer or one other
SessionOptions(q) == {q.correctAnswer, q.options[1]}
SessionTexts(q) ==
    {IF q.type = "fill-in-the-blank" THEN q.correctAnswer ELSE <<"o", "k">>}
SessionTargets(q, item) == {q.correctPairs[item.id]}

\* every input a view can produce, texts up to MaxTextLen characters
TextAlphabet == {"a", "A", " "}

TextsUpTo(n) == UNION {[1..k -> TextAlphabet] : k \in 0..n}

GradeTexts(q) == TextsUpTo(MaxTextLen)
AllOptions(q) == {q.options[i] : i \in 1..Len(q.options)}
AllTargets(q, item) == {q.targets[i].id : i \in 1..Len(q.targets)}

\* the inputs of a view: a few per control ("session") or all of them ("every")
Options(inputs, q) == IF inputs = "session" THEN SessionOptions(q) ELSE AllOptions(q)
Texts(inputs, q) == IF inputs = "session" THEN SessionTexts(q) ELSE GradeTexts(q)
Targets(inputs, q, item) ==
    IF inputs = "session" THEN SessionTargets(q, item) ELSE AllTargets(q, item)

(***************************************************************************)
(* The user's steps in the question views.                                 *)
(***************************************************************************)
answerMcq(inputs) ==
    \E i \in 1..Len(assessmentData) :
        LET q == assessmentData[i]
        IN /\ q.type = "mcq"
           /\ \E option \in Options(inputs, q) :
                  handleAnswerChange(q.id, mcqAnswer(q, option))

answerText(inputs) ==
    \E i \in 1..Len(assessmentData) :
        LET q == assessmentData[i]
        IN /\ q.type \in {"fill-in-the-blank", "written"}
           /\ \E text \in Texts(inputs, q) :
                  handleAnswerChange(q.id, textAnswer(q, text))

answerMatch(inputs) ==
    \E i \in 1..Len(assessmentData) :
        LET q == assessmentData[i]
        IN /\ q.type = "match"
           /\ \E k \in 1..Len(q.items) :
                \E targetId \in Targets(inputs, q, q.items[k]) :
                  handleAnswerChange(q.id,
                      handleSelectChange(answerOf(answers, q), q.items[k].id, targetId))

(***************************************************************************)
(* The library kept by App: the load and the save effect, handleSearch,    *)
(* the detail fetches, updateTermData, handleUpdateTermStatus and the      *)
(* delete dialog.  An optional field of a TermData that is missing is      *)
(* "undefined" (status) or 0 (the two timestamps); every term has one      *)
(* meaning, of index 0.                                                    *)
(***************************************************************************)
MaxClock == 1           \* status changes in one session, each a tick of Date.now()
MaxInFlight == 1        \* AI requests awaited at the same time

MeaningIndexes == {0}
SearchTexts == {<<"a", "d">>, <<"A", "d", "d">>}
AiTexts == {<<"a", "d">>, <<"A", "d", "d">>}

LibraryTerm(term, termStatus, details, addedTimestamp, masteredTimestamp) ==
    [term |-> term, status |-> termStatus, details |-> details,
     addedTimestamp |-> addedTimestamp, masteredTimestamp |-> masteredTimestamp]

EmptyLibrary == [termKey \in {} |-> Undefined]
NoUpdates == [setLibrary |-> FALSE, library |-> EmptyLibrary, setIsLibraryLoaded |-> FALSE]
NoWrite == [written |-> FALSE, value |-> EmptyLibrary, time |-> 0]

\* localStorage.getItem('vocabLibrary'): null, a string JSON.parse rejects, or a library
NoItem == [kind |-> "null", value |-> EmptyLibrary]
CorruptItem == [kind |-> "corrupt", value |-> EmptyLibrary]
JsonItem(value) == [kind |-> "json", value |-> value]

\* the libraries an earlier session may have left in localStorage
SavedLibraries ==
    { EmptyLibrary,
      <<"a", "d">> :> LibraryTerm(<<"a", "d">>, "undefined", {}, 0, 0),
      <<"a", "d">> :> LibraryTerm(<<"A", "d">>, "mastered", {0}, 1, 1) }

SavedItems == {NoItem, CorruptItem} \cup { JsonItem(saved) : saved \in SavedLibraries }

\* the migration of the load effect
migrated(parsedLibrary, time) ==
    [termKey \in DOMAIN parsedLibrary |->
        [parsedLibrary[termKey] EXCEPT
            !.status = IF @ = "undefined" THEN "learning" ELSE @,
            !.addedTimestamp = IF @ = 0 THEN time ELSE @]]

\* the first effect of App: it runs once, after the first render
loadEffect ==
    /\ "load" \in effectsDue
    /\ queuedUpdates' =
           [setLibrary |-> vocabLibrary.kind = "json",
            library |-> IF vocabLibrary.kind = "json"
                        THEN migrated(vocabLibrary.value, now)
                        ELSE EmptyLibrary,
            setIsLibraryLoaded |-> TRUE]
    /\ effectsDue' = effectsDue \ {"load"}
    /\ UNCHANGED <<library, isLibraryLoaded, results, pendingFetches, vocabLibrary,
                   firstWrite, savedAtMount, now, lastStatusChange>>
    /\ UNCHANGED <<activeModal, modalData, tape, lastCall, completions, quizHistory>>
    /\ UNCHANGED quizVars
    /\ UNCHANGED assessVars

\* the save effect run with no test of isLibraryLoaded (a faulty variant)
saveEffectUnguarded ==
    /\ effectsDue = {"save"}
    /\ vocabLibrary' = JsonItem(library)
    /\ firstWrite' = IF firstWrite.written THEN firstWrite
                     ELSE [written |-> TRUE, value |-> library, time |-> now]
    /\ effectsDue' = {}
    /\ UNCHANGED <<library, isLibraryLoaded, results, pendingFetches, queuedUpdates,
                   savedAtMount, now, lastStatusChange>>
    /\ UNCHANGED <<activeModal, modalData, tape, lastCall, completions, quizHistory>>
    /\ UNCHANGED quizVars
    /\ UNCHANGED assessVars

\* the second effect of App: it runs after the load effect of the same commit, and after
\* every commit that changed library or isLibraryLoaded, with the values of that render
saveEffect ==
    /\ effectsDue = {"save"}
    /\ IF isLibraryLoaded
       THEN /\ vocabLibrary' = JsonItem(library)
            /\ firstWrite' = IF firstWrite.written THEN firstWrite
                             ELSE [written |-> TRUE, value |-> library, time |-> now]
       ELSE UNCHANGED <<vocabLibrary, firstWrite>>
    /\ effectsDue' = {}
    /\ UNCHANGED <<library, isLibraryLoaded, results, pendingFetches, queuedUpdates,
                   savedAtMount, now, lastStatusChange>>
    /\ UNCHANGED <<activeModal, modalData, tape, lastCall, completions, quizHistory>>
    /\ UNCHANGED quizVars
    /\ UNCHANGED assessVars

\* the render that applies setLibrary(parsedLibrary) and setIsLibraryLoaded(true)
renderLoaded ==
    /\ effectsDue = {}
    /\ queuedUpdates # NoUpdates
    /\ library' = IF queuedUpdates.setLibrary THEN queuedUpdates.library ELSE library
    /\ isLibraryLoaded' = (isLibraryLoaded \/ queuedUpdates.setIsLibraryLoaded)
    /\ queuedUpdates' = NoUpdates
    /\ effectsDue' = {"save"}
    /\ UNCHANGED <<results, pendingFetches, vocabLibrary, firstWrite, savedAtMount, now,
                   lastStatusChange>>
    /\ UNCHANGED <<activeModal, modalData, tape, lastCall, completions, quizHistory>>
    /\ UNCHANGED quizVars
    /\ UNCHANGED assessVars

\* the user can act once the effects of the latest commit have run
Idle == effectsDue = {} /\ queuedUpdates = NoUpdates

Without(map, termKeys) == [termKey \in DOMAIN map \ termKeys |-> map[termKey]]

\* handleSearch([term], level) up to its await
handleSearch(term) ==
    LET termKey == toLowerCase(term)
    IN /\ Idle
       /\ IF termKey \in DOMAIN library
          THEN /\ results' = {library[termKey]}
               /\ UNCHANGED pendingFetches
          ELSE /\ Cardinality(pendingFetches) < MaxInFlight
               /\ results' = {}
               /\ pendingFetches' = pendingFetches \cup
                      {[fn |-> "fetchInitialWordData", termKey |-> termKey,
                        term |-> Undefined, meaningIndex |-> 0]}
       /\ UNCHANGED <<library, isLibraryLoaded, queuedUpdates, effectsDue, vocabLibrary,
                      firstWrite, savedAtMount, now, lastStatusChange>>
       /\ UNCHANGED <<activeModal, modalData, tape, lastCall, completions, quizHistory>>
       /\ UNCHANGED quizVars
       /\ UNCHANGED assessVars

\* fetchInitialWordData: the AI's answer, completed
fetchInitialWordData(aiTerm, time) == LibraryTerm(aiTerm, "learning", {}, time, 0)

\* handleSearch after its await: the new entry is stored under the search text's key
searchResolved(fetch, aiTerm) ==
    LET newData == fetchInitialWordData(aiTerm, now)
    IN /\ Idle
       /\ fetch \in pendingFetches
       /\ fetch.fn = "fetchInitialWordData"
       /\ pendingFetches' = pendingFetches \ {fetch}
       /\ library' = (fetch.termKey :> newData) @@ library
       /\ lastStatusChange' = Without(lastStatusChange, {fetch.termKey})
       /\ results' = {newData}
       /\ effectsDue' = {"save"}
       /\ UNCHANGED <<isLibraryLoaded, queuedUpdates, vocabLibrary, firstWrite,
                      savedAtMount, now>>
       /\ UNCHANGED <<activeModal, modalData, tape, lastCall, completions, quizHistory>>
       /\ UNCHANGED quizVars
       /\ UNCHANGED assessVars

\* handleSearch after its await, the request having failed
searchRejected(fetch) ==
    /\ Idle
    /\ fetch \in pendingFetches
    /\ fetch.fn = "fetchInitialWordData"
    /\ pendingFetches' = pendingFetches \ {fetch}
    /\ results' = {}
    /\ UNCHANGED <<library, isLibraryLoaded, queuedUpdates, effectsDue, vocabLibrary,
                   firstWrite, savedAtMount, now, lastStatusChange>>
    /\ UNCHANGED <<activeModal, modalData, tape, lastCall, completions, quizHistory>>
    /\ UNCHANGED quizVars
    /\ UNCHANGED assessVars

\* handleExploreDetails(term, meaningIndex, level) up to its await; the term is the one a
\* result card shows
handleExploreDetails(term, meaningIndex) ==
    /\ Idle
    /\ term \in results
    /\ Cardinality(pendingFetches) < MaxInFlight
    /\ pendingFetches' = pendingFetches \cup
           {[fn |-> "fetchMeaningDetails", termKey |-> toLowerCase(term.term),
             term |-> term, meaningIndex |-> meaningIndex]}
    /\ UNCHANGED <<library, isLibraryLoaded, results, queuedUpdates, effectsDue,
                   vocabLibrary, firstWrite, savedAtMount, now, lastStatusChange>>
    /\ UNCHANGED <<activeModal, modalData, tape, lastCall, completions, quizHistory>>
    /\ UNCHANGED quizVars
    /\ UNCHANGED assessVars

\* handleExploreLibraryTerms([termKey], level) up to its await
handleExploreLibraryTerms(termKey) ==
    /\ Idle
    /\ IF termKey \in DOMAIN library
       THEN /\ results' = {library[termKey]}
            /\ IF MeaningIndexes \subseteq library[termKey].details
               THEN UNCHANGED pendingFetches
               ELSE /\ Cardinality(pendingFetches) < MaxInFlight
                    /\ pendingFetches' = pendingFetches \cup
                           {[fn |-> "fetchMeaningDetails", termKey |-> termKey,
                             term |-> library[termKey],
                             meaningIndex |-> CHOOSE i \in MeaningIndexes :
                                                 i \notin library[termKey].details]}
       ELSE /\ results' = {}
            /\ UNCHANGED pendingFetches
    /\ UNCHANGED <<library, isLibraryLoaded, queuedUpdates, effectsDue, vocabLibrary,
                   firstWrite, savedAtMount, now, lastStatusChange>>
    /\ UNCHANGED <<activeModal, modalData, tape, lastCall, completions, quizHistory>>
    /\ UNCHANGED quizVars
    /\ UNCHANGED assessVars

\* fetchMeaningDetails: the term it was given, with the details of one more meaning
fetchMeaningDetails(termData, meaningIndex) ==
    [termData EXCEPT !.details = @ \cup {meaningIndex}]

\* updateTermData: the library it leaves
updatedLibrary(prevLibrary, updatedTerm) ==
    LET termKey == toLowerCase(updatedTerm.term)
    IN IF termKey \in DOMAIN prevLibrary
       THEN [prevLibrary EXCEPT ![termKey] = updatedTerm]
       ELSE prevLibrary

\* updateTermData: the results it leaves
updatedResults(prevResults, updatedTerm) ==
    { IF toLowerCase(r.term) = toLowerCase(updatedTerm.term) THEN updatedTerm ELSE r :
          r \in prevResults }

\* updateTermData(updatedTerm)
updateTermData(updatedTerm) ==
    /\ results' = updatedResults(results, updatedTerm)
    /\ library' = updatedLibrary(library, updatedTerm)
    /\ effectsDue' = IF toLowerCase(updatedTerm.term) \in DOMAIN library
                     THEN {"save"} ELSE {}

\* a detail fetch resolved: handleExploreDetails and handleExploreLibraryTerms after
\* their await
detailsResolved(fetch) ==
    /\ Idle
    /\ fetch \in pendingFetches
    /\ fetch.fn = "fetchMeaningDetails"
    /\ pendingFetches' = pendingFetches \ {fetch}
    /\ updateTermData(fetchMeaningDetails(fetch.term, fetch.meaningIndex))
    /\ UNCHANGED <<isLibraryLoaded, queuedUpdates, vocabLibrary, firstWrite, savedAtMount,
                   now, lastStatusChange>>
    /\ UNCHANGED <<activeModal, modalData, tape, lastCall, completions, quizHistory>>
    /\ UNCHANGED quizVars
    /\ UNCHANGED assessVars

\* a detail fetch rejected: nothing is updated
detailsRejected(fetch) ==
    /\ Idle
    /\ fetch \in pendingFetches
    /\ fetch.fn = "fetchMeaningDetails"
    /\ pendingFetches' = pendingFetches \ {fetch}
    /\ UNCHANGED <<library, isLibraryLoaded, results, queuedUpdates, effectsDue,
                   vocabLibrary, firstWrite, savedAtMount, now, lastStatusChange>>
    /\ UNCHANGED <<activeModal, modalData, tape, lastCall, completions, quizHistory>>
    /\ UNCHANGED quizVars
    /\ UNCHANGED assessVars

\* the term handleUpdateTermStatus stores
withStatus(term, newStatus, time) ==
    [term EXCEPT !.status = newStatus,
                 !.masteredTimestamp = IF newStatus = "mastered" /\ @ = 0 THEN time
                                       ELSE IF newStatus = "learning" THEN 0
                                       ELSE @]

\* handleUpdateTermStatus(termKey, status)
handleUpdateTermStatus(termKey, newStatus) ==
    /\ Idle
    /\ now - 1 <= MaxClock
    /\ now' = now + 1
    /\ IF termKey \in DOMAIN library
       THEN LET updatedTerm == withStatus(library[termKey], newStatus, now)
            IN /\ library' = [library EXCEPT ![termKey] = updatedTerm]
               /\ lastStatusChange' =
                      (termKey :> [status |-> updatedTerm.status,
                                   masteredTimestamp |-> updatedTerm.masteredTimestamp])
                      @@ lastStatusChange
               /\ effectsDue' = {"save"}
       ELSE UNCHANGED <<library, lastStatusChange, effectsDue>>
    /\ UNCHANGED <<isLibraryLoaded, results, pendingFetches, queuedUpdates, vocabLibrary,
                   firstWrite, savedAtMount>>
    /\ UNCHANGED <<activeModal, modalData, tape, lastCall, completions, quizHistory>>
    /\ UNCHANGED quizVars
    /\ UNCHANGED assessVars

\* handleDelete(termKeys): the keys are the ones ticked in the library view
handleDelete(termKeys) ==
    /\ Idle
    /\ activeModal = "none"
    /\ termKeys # {}
    /\ termKeys \subseteq DOMAIN library
    /\ modalData' = termKeys
    /\ activeModal' = "deleteConfirm"
    /\ UNCHANGED <<tape, lastCall, completions, quizHistory>>
    /\ UNCHANGED quizVars
    /\ UNCHANGED assessVars
    /\ UNCHANGED libraryVars

\* confirmDelete()
confirmDelete ==
    /\ Idle
    /\ activeModal = "deleteConfirm"
    /\ library' = Without(library, modalData)
    /\ lastStatusChange' = Without(lastStatusChange, modalData)
    /\ results' = { r \in results : toLowerCase(r.term) \notin modalData }
    /\ activeModal' = "none"
    /\ effectsDue' = {"save"}
    /\ UNCHANGED <<isLibraryLoaded, pendingFetches, queuedUpdates, vocabLibrary,
                   firstWrite, savedAtMount, now>>
    /\ UNCHANGED <<modalData, tape, lastCall, completions, quizHistory>>
    /\ UNCHANGED quizVars
    /\ UNCHANGED assessVars

\* the library of a session that found nothing saved, once its effects have run
LibraryAtRest ==
    /\ library = EmptyLibrary
    /\ isLibraryLoaded = TRUE
    /\ results = {}
    /\ pendingFetches = {}
    /\ queuedUpdates = NoUpdates
    /\ effectsDue = {}
    /\ vocabLibrary = JsonItem(EmptyLibrary)
    /\ firstWrite = [written |-> TRUE, value |-> EmptyLibrary, time |-> 1]
    /\ savedAtMount = NoItem
    /\ now = 1
    /\ lastStatusChange = EmptyLibrary

(***************************************************************************)
(* The App with its quiz and assessment modals.                            *)
(***************************************************************************)
Init ==
    /\ activeModal = "none"
    /\ modalData = <<>>
    /\ tape = <<0>>
    /\ lastCall = NoCall
    /\ gameState = "playing"
    /\ currentIndex = 0
    /\ wrongAnswers = <<>>
    /\ shuffledQuestions = <<>>
    /\ runLog = <<>>
    /\ completions = <<>>
    /\ quizHistory = <<>>
    /\ assessmentData = Null
    /\ status = "loading"
    /\ answers = <<>>
    /\ score = 0
    /\ LibraryAtRest

StartQuiz ==
    \E type \in QuizTypes, data \in QuizLists, t \in Tapes(MaxTapeLen) :
        handleStartQuiz(type, data, t)

NextQuestion == \E isCorrect \in BOOLEAN : handleNextQuestion(isCorrect)

Redeem == \E t \in Tapes(MaxTapeLen) : handleRedeem(t)

StartAssessment == \E terms \in SessionTermLists : handleStartAssessment(terms)

Generate == \E t \in Tapes(MaxTapeLen) : generationEffect(t)

QuizNext ==
    \/ StartQuiz
    \/ NextQuestion
    \/ Redeem
    \/ closeQuiz

QuizSpec == Init /\ [][QuizNext]_vars

AssessNext ==
    \/ StartAssessment
    \/ Generate
    \/ answerMcq("session")
    \/ answerText("session")
    \/ answerMatch("session")
    \/ handleSubmit
    \/ closeAssessment

AssessSpec == Init /\ [][AssessNext]_vars

(***************************************************************************)
(* The effect of AssessmentModal alone: it is handed what the composer     *)
(* computes for the terms, or an AssessmentSet without questions, which    *)
(* the composer of this repository never computes for a list of terms.     *)
(***************************************************************************)
EmptyAssessment == [threw |-> FALSE, questions |-> <<>>]

EffectOnResult ==
    \E t \in Tapes(MaxTapeLen) :
        \/ generationEffectWith(t, generateAssessmentFromTerms(modalData, t))
        \/ generationEffectWith(t, EmptyAssessment)

EffectNext ==
    \/ StartAssessment
    \/ EffectOnResult
    \/ answerMcq("session")
    \/ answerText("session")
    \/ answerMatch("session")
    \/ handleSubmit
    \/ closeAssessment

EffectSpec == Init /\ [][EffectNext]_vars

(***************************************************************************)
(* The grader alone: one question of each type, answered through its view  *)
(* with every input the view can produce, then submitted.                  *)
(***************************************************************************)
GradeQuestions ==
    {fillQuestion(0, TermData(text, <<"def">>, Details0(<<text>>))) :
        text \in TextsUpTo(MaxTextLen)}
    \cup {matchQuestion(SubSeq(Vocabulary, 1, 4))}
    \cup {mcqQuestion(0, Vocabulary[1],
                      [i \in 1..4 |-> Vocabulary[i].term])}
    \cup {writtenQuestion(0, Vocabulary[1])}

GradeInit ==
    /\ activeModal = "assessment"
    /\ modalData = <<>>
    /\ tape = <<0>>
    /\ lastCall = NoCall
    /\ gameState = "playing"
    /\ currentIndex = 0
    /\ wrongAnswers = <<>>
    /\ shuffledQuestions = <<>>
    /\ runLog = <<>>
    /\ completions = <<>>
    /\ quizHistory = <<>>
    /\ \E q \in GradeQuestions : assessmentData = <<q>>
    /\ status = "taking"
    /\ answers = <<>>
    /\ score = 0
    /\ LibraryAtRest

GradeNext ==
    \/ answerMcq("every")
    \/ answerText("every")
    \/ answerMatch("every")
    \/ handleSubmit

GradeSpec == GradeInit /\ [][GradeNext]_vars

(***************************************************************************)
(* The composer alone: generateAssessmentFromTerms on term lists of every  *)
(* length up to MaxComposeTerms.                                           *)
(***************************************************************************)
Digits == <<"0", "1", "2", "3", "4", "5", "6", "7", "8", "9">>

Word(c, j) == <<c, Digits[((j \div 10) % 10) + 1], Digits[(j % 10) + 1]>>

\* the i-th term of a list whose term texts repeat with the given period;
\* every second term has been explored
ComposeTerm(i, period) ==
    TermData(Word("w", i % period), <<Word("d", i)>>,
             IF i % 2 = 1
             THEN Details0(<< <<"s", "e", "e", " ">> \o Word("w", i % period) >>)
             ELSE NoDetails)

ComposePeriods == {1, 3, MaxComposeTerms}

ComposeLists ==
    {[i \in 1..n |-> ComposeTerm(i, period)] :
        n \in 1..MaxComposeTerms, period \in ComposePeriods}

\* library terms as the backend and the exploring of single meanings can leave
\* them: a text with '.', a text with '++', an example in which the term does
\* not occur, an example in which it occurs twice, a term whose second meaning
\* alone was explored, and a term that came back without meanings
CraftedTerms ==
    << TermData(<<"a", ".">>, <<Word("d", 91)>>,
                Details0(<< <<"a", "b", " ", "a", ".">> >>)),
       TermData(<<"c", "+", "+">>, <<Word("d", 92)>>,
                Details0(<< <<"c", "+", "+", " ", "x">> >>)),
       TermData(<<"d">>, <<Word("d", 93)>>, Details0(<< <<"b", " ", "y">> >>)),
       TermData(<<"a">>, <<Word("d", 94)>>, Details0(<< <<"a", " ", "a">> >>)),
       TermData(<<"b">>, <<Word("d", 95), Word("d", 96)>>,
                DetailsAt(1, << <<"b", " ", "x">> >>)),
       TermData(<<"e">>, <<>>, NoDetails) >>

\* each of them alone, and each with three more terms
CraftedLists ==
    {<<CraftedTerms[i]>> : i \in 1..Len(CraftedTerms)}
    \cup {<<CraftedTerms[i]>> \o [k \in 1..3 |-> ComposeTerm(k, MaxComposeTerms)] :
              i \in 1..Len(CraftedTerms)}

\* 4 and 5 terms fresh from a search, none explored: their texts all different, or
\* all the same (library keys that the backend answered with one term)
UnexploredLists ==
    {[i \in 1..n |-> TermData(Word("w", i % period), <<Word("d", i)>>, NoDetails)] :
        n \in 4..5, period \in {1, MaxComposeTerms}}

ComposeStart ==
    \E terms \in ComposeLists \cup CraftedLists \cup UnexploredLists :
        handleStartAssessment(terms)

ComposeGenerate == \E t \in Tapes(MaxTapeLen) : generationEffect(t)

ComposeNext ==
    \/ ComposeStart
    \/ ComposeGenerate

ComposeSpec == Init /\ [][ComposeNext]_vars

(***************************************************************************)
(* shuffleArray alone, called once on a sequence of up to MaxShuffleLen     *)
(* elements, equal elements included, with one draw of Math.random() for   *)
(* every element.                                                          *)
(***************************************************************************)
ShuffleElements == {"x", "y", "z"}

ShuffleInputs == UNION {[1..n -> ShuffleElements] : n \in 0..MaxShuffleLen}

\* the draws of one call: Math.random() is called array.length times
DrawsFor(array) == [1..Len(array) -> 0..(RandScale - 1)]

shuffleCall(array, t) ==
    /\ lastCall = NoCall
    /\ LET call == shuffleArrayOn(<<array>>, 1, t, 0)
       IN lastCall' = [fn |-> "shuffleArray", array |-> array,
                       result |-> call.heap[call.result],
                       arrayAfter |-> call.heap[1],
                       isNewArray |-> call.result # 1]
    /\ UNCHANGED <<activeModal, modalData, tape, completions, quizHistory>>
    /\ UNCHANGED quizVars
    /\ UNCHANGED libraryVars
    /\ UNCHANGED <<assessmentData, status, answers, score>>

ShuffleNext ==
    \E array \in ShuffleInputs : \E t \in DrawsFor(array) : shuffleCall(array, t)

ShuffleSpec == Init /\ [][ShuffleNext]_vars

(***************************************************************************)
(* The library alone: the App mounts over what an earlier session left in  *)
(* localStorage, then the user searches, explores, changes statuses and    *)
(* deletes.                                                                *)
(***************************************************************************)
LibraryInit ==
    /\ activeModal = "none"
    /\ modalData = {}
    /\ tape = <<0>>
    /\ lastCall = NoCall
    /\ gameState = "playing"
    /\ currentIndex = 0
    /\ wrongAnswers = <<>>
    /\ shuffledQuestions = <<>>
    /\ runLog = <<>>
    /\ completions = <<>>
    /\ quizHistory = <<>>
    /\ assessmentData = Null
    /\ status = "loading"
    /\ answers = <<>>
    /\ score = 0
    /\ library = EmptyLibrary
    /\ isLibraryLoaded = FALSE
    /\ results = {}
    /\ pendingFetches = {}
    /\ queuedUpdates = NoUpdates
    /\ effectsDue = {"load", "save"}
    /\ vocabLibrary \in SavedItems
    /\ savedAtMount = vocabLibrary
    /\ firstWrite = NoWrite
    /\ now = 2
    /\ lastStatusChange = EmptyLibrary

LibraryKeys == { toLowerCase(term) : term \in SearchTexts }

Search == \E term \in SearchTexts : handleSearch(term)

SearchDone ==
    \E fetch \in pendingFetches :
        \/ \E aiTerm \in AiTexts : searchResolved(fetch, aiTerm)
        \/ searchRejected(fetch)

Explore ==
    \/ \E term \in results, meaningIndex \in MeaningIndexes :
           handleExploreDetails(term, meaningIndex)
    \/ \E termKey \in LibraryKeys : handleExploreLibraryTerms(termKey)

ExploreDone ==
    \E fetch \in pendingFetches : detailsResolved(fetch) \/ detailsRejected(fetch)

UpdateStatus ==
    \E termKey \in DOMAIN library, newStatus \in {"learning", "mastered"} :
        handleUpdateTermStatus(termKey, newStatus)

Delete == \E termKeys \in SUBSET LibraryKeys : handleDelete(termKeys)

LibraryNext ==
    \/ loadEffect
    \/ saveEffect
    \/ renderLoaded
    \/ Search
    \/ SearchDone
    \/ Explore
    \/ ExploreDone
    \/ UpdateStatus
    \/ Delete
    \/ confirmDelete

LibrarySpec == LibraryInit /\ [][LibraryNext]_vars

(***************************************************************************)
(* The persisted library alone: the App mounts, then the user searches,    *)
(* changes statuses and deletes terms; no details are fetched.             *)
(***************************************************************************)
PersistNext ==
    \/ loadEffect
    \/ saveEffect
    \/ renderLoaded
    \/ Search
    \/ SearchDone
    \/ UpdateStatus
    \/ Delete
    \/ confirmDelete

PersistSpec == LibraryInit /\ [][PersistNext]_vars

(***************************************************************************)
(* The quiz history alone: handleQuizComplete called by finished quizzes,  *)
(* over the history that earlier sessions left in localStorage.            *)
(***************************************************************************)
MaxFinished == 2        \* quizzes finished in one session

\* handleQuizComplete(quizType, score, total)
handleQuizComplete(quizType, finalScore, total) ==
    LET newAttempt == [quizType |-> quizType, score |-> finalScore, total |-> total]
    IN /\ Len(completions) < MaxFinished
       /\ completions' = Append(completions, newAttempt)
       /\ quizHistory' = appendAttempt(quizHistory, newAttempt)
       /\ UNCHANGED <<activeModal, modalData, tape, lastCall>>
       /\ UNCHANGED quizVars
       /\ UNCHANGED assessVars
       /\ UNCHANGED libraryVars

\* the i-th attempt of an earlier session
PastAttempt(i) == [quizType |-> "spellingBee", score |-> i, total |-> HistoryCap]

\* what handleQuizComplete has left in localStorage before this session
PastHistories == {[i \in 1..n |-> PastAttempt(i)] : n \in 0..HistoryCap}

HistoryInit ==
    /\ activeModal = "none"
    /\ modalData = <<>>
    /\ tape = <<0>>
    /\ lastCall = NoCall
    /\ gameState = "playing"
    /\ currentIndex = 0
    /\ wrongAnswers = <<>>
    /\ shuffledQuestions = <<>>
    /\ runLog = <<>>
    /\ completions = <<>>
    /\ quizHistory \in PastHistories
    /\ assessmentData = Null
    /\ status = "loading"
    /\ answers = <<>>
    /\ score = 0
    /\ LibraryAtRest

HistoryNext ==
    \E quizType \in QuizTypes, total \in 1..MaxQuizTerms :
        \E finalScore \in 0..total : handleQuizComplete(quizType, finalScore, total)

HistorySpec == HistoryInit /\ [][HistoryNext]_vars

(***************************************************************************)
(* Properties.                                                             *)
(***************************************************************************)
Last(s) == s[Len(s)]

TextsOf(list) == {list[i].term : i \in 1..Len(list)}

\* the texts of the terms answered incorrectly in the current run
WrongTextsOfRun ==
    {shuffledQuestions[i].term : i \in {k \in 1..Len(runLog) : ~runLog[k]}}

Occurrences(s, x) == Cardinality({i \in 1..Len(s) : s[i] = x})

IsPermutationOf(s, r) ==
    /\ Len(s) = Len(r)
    /\ \A i \in 1..Len(r) : Occurrences(s, r[i]) = Occurrences(r, r[i])

QuestionsOfType(type) ==
    {i \in 1..Len(assessmentData) : assessmentData[i].type = type}

IsAnswered(i) == assessmentData[i].id \in DOMAIN answers

\* the all-correct answer for a question
IsExpectedAnswer(q, a) ==
    CASE q.type = "mcq" -> a = Str(q.correctAnswer)
      [] q.type = "fill-in-the-blank" -> a = Str(q.correctAnswer)
      [] q.type = "match" -> a = Obj(q.correctPairs)
      [] q.type = "written" -> a.type = "string" /\ trim(a.value) # <<>>
      [] OTHER -> FALSE

AllAnswersExpected ==
    \A i \in 1..Len(assessmentData) :
        IsAnswered(i) /\ IsExpectedAnswer(assessmentData[i], answers[assessmentData[i].id])

TermsHaveMeaningAndExample(terms) ==
    \A i \in 1..Len(terms) :
        Len(terms[i].meanings) >= 1 /\ exampleIsTruthy(terms[i])

\* C1: for terms that each have a meaning and an example the assessment is not
\* empty, and submitting the expected answer to every question gives a score
\* equal to the number of questions; a quiz run answered correctly throughout
\* ends in 'results' with score = total.
C1_AllCorrectScoresTotal ==
    /\ (activeModal = "assessment" /\ status # "loading"
        /\ TermsHaveMeaningAndExample(modalData))
       => /\ Len(assessmentData) > 0
          /\ (status = "submitted" /\ AllAnswersExpected
              => score = Len(assessmentData))
    /\ (activeModal = "quiz" /\ gameState = "results"
        /\ \A i \in 1..Len(runLog) : runLog[i])
       => Last(completions).score = Last(completions).total

\* C2: a quiz run over N >= 1 questions is in 'results' after exactly N calls of
\* handleNextQuestion, and onQuizComplete was then called with total = N and
\* score = N minus the number of distinct term texts answered incorrectly in the
\* run; the score shown in 'results' is the same number.
C2_ResultsAfterNCalls ==
    activeModal = "quiz" =>
        LET N == Len(shuffledQuestions)
        IN /\ N >= 1
           /\ gameState = "playing" => Len(runLog) < N
           /\ gameState = "results" =>
                /\ Len(runLog) = N
                /\ completions # <<>>
                /\ Last(completions).total = N
                /\ Last(completions).score = N - Cardinality(WrongTextsOfRun)
                /\ N - Len(wrongAnswers) = Last(completions).score

C2_Witness ==
    /\ activeModal = "quiz"
    /\ gameState = "results"
    /\ Len(shuffledQuestions) = 3
    /\ \A i \in 1..3 : ~runLog[i]
    /\ Last(completions).score = 1

\* C3: onQuizComplete is called, and the persisted history grows by that one
\* attempt, exactly in the steps from 'playing' to 'results'; every other step,
\* closing the quiz included, leaves both unchanged.
C3_CompletionOnlyAtResults ==
    [][IF gameState = "playing" /\ gameState' = "results"
       THEN /\ Len(completions') = Len(completions) + 1
            /\ SubSeq(completions', 1, Len(completions)) = completions
            /\ quizHistory' = Append(quizHistory, Last(completions'))
       ELSE /\ completions' = completions
            /\ quizHistory' = quizHistory]_vars

\* a quiz of 3 questions was opened and closed with nothing logged: it was
\* closed while 'playing', since a finished pass would have logged an attempt
C3_Witness ==
    /\ activeModal = "none"
    /\ "questions" \in DOMAIN modalData
    /\ Len(modalData.questions) = 3
    /\ completions = <<>>
    /\ quizHistory = <<>>

\* C4: a step from 'results' back to 'playing' happens only with at least one
\* wrong term, and the new question list is a permutation of exactly the wrong
\* terms of the run before, with currentIndex 0 and no wrong answers.
C4_RedeemRunsTheWrongTerms ==
    [][(activeModal' = "quiz" /\ gameState = "results" /\ gameState' = "playing")
       => /\ Len(wrongAnswers) >= 1
          /\ IsPermutationOf(shuffledQuestions', wrongAnswers)
          /\ TextsOf(shuffledQuestions') = WrongTextsOfRun
          /\ Len(shuffledQuestions') = Cardinality(WrongTextsOfRun)
          /\ currentIndex' = 0
          /\ wrongAnswers' = <<>>]_vars

C4_Witness ==
    /\ activeModal = "quiz"
    /\ gameState = "playing"
    /\ Len(completions) >= 1
    /\ Len(modalData.questions) = 3
    /\ Len(shuffledQuestions) = 2
    /\ currentIndex = 0
    /\ wrongAnswers = <<>>

\* C5: a call of handleNextQuestion appends the current term to wrongAnswers
\* exactly when the answer is incorrect and no entry has that text, and changes
\* nothing otherwise; wrongAnswers never holds one text twice nor a term that is
\* not a question of the current run.
C5_WrongAnswersInvariant ==
    /\ \A i, j \in 1..Len(wrongAnswers) :
          wrongAnswers[i].term = wrongAnswers[j].term => i = j
    /\ \A i \in 1..Len(wrongAnswers) :
          \E k \in 1..Len(shuffledQuestions) : shuffledQuestions[k] = wrongAnswers[i]

C5_WrongAnswersRecordedOnce ==
    /\ []C5_WrongAnswersInvariant
    /\ [][Len(runLog') = Len(runLog) + 1
          => LET currentTerm == shuffledQuestions[currentIndex + 1]
             IN wrongAnswers' =
                    IF ~Last(runLog') /\ currentTerm.term \notin TextsOf(wrongAnswers)
                    THEN Append(wrongAnswers, currentTerm)
                    ELSE wrongAnswers]_vars

\* a second incorrect answer for the same text was not recorded again
C5_Witness ==
    /\ activeModal = "quiz"
    /\ Len(runLog) >= 2
    /\ ~runLog[1] /\ ~runLog[2]
    /\ shuffledQuestions[1].term = shuffledQuestions[2].term
    /\ Len(wrongAnswers) = 1

SameMap(m, pairs) ==
    /\ Cardinality(DOMAIN m) = Cardinality(DOMAIN pairs)
    /\ \A k \in DOMAIN pairs : k \in DOMAIN m /\ m[k] = pairs[k]

\* C6: a submitted match question scores exactly when the map built in its view
\* has the size of correctPairs and agrees with it on every key.
C6_MatchGradedByWholeMap ==
    (activeModal = "assessment" /\ status = "submitted") =>
        \A i \in QuestionsOfType("match") :
            LET q == assessmentData[i]
            IN Len(assessmentData) = 1 =>
                  IF IsAnswered(i)
                  THEN score = 1 <=> SameMap(answers[q.id].value, q.correctPairs)
                  ELSE score = 0

\* three of the four items are paired, all as correctPairs says: graded incorrect
C6_Witness ==
    /\ status = "submitted"
    /\ Len(assessmentData) = 1
    /\ assessmentData[1].type = "match"
    /\ IsAnswered(1)
    /\ Cardinality(DOMAIN answers[assessmentData[1].id].value) = 3
    /\ \A k \in DOMAIN answers[assessmentData[1].id].value :
          answers[assessmentData[1].id].value[k] = assessmentData[1].correctPairs[k]
    /\ score = 0

\* C7: a submitted fill-in-the-blank question scores exactly when the typed text,
\* trimmed and lower-cased, equals the expected answer, trimmed and lower-cased.
C7_FillGradedTrimmedBothSides ==
    (activeModal = "assessment" /\ status = "submitted"
     /\ Len(assessmentData) = 1) =>
        \A i \in QuestionsOfType("fill-in-the-blank") :
            LET q == assessmentData[i]
            IN IsAnswered(i) =>
                (score = 1 <=> toLowerCase(trim(answers[q.id].value))
                                  = toLowerCase(trim(q.correctAnswer)))

AnsweredQuestions ==
    SelectSeq(assessmentData, LAMBDA q : q.id \in DOMAIN answers)

\* C8: whatever questions are answered, handleSubmit can run to its end, and the
\* score it sets counts answered questions only: a question without an answer
\* adds nothing.
C8_UnansweredScoresNothing ==
    activeModal = "assessment" =>
        /\ status = "taking" => ENABLED handleSubmit
        /\ status = "submitted" =>
              /\ score = correctCount(AnsweredQuestions, answers)
              /\ score <= Len(AnsweredQuestions)

\* a submitted assessment that leaves a question of every type unanswered
C8_Witness ==
    /\ activeModal = "assessment"
    /\ status = "submitted"
    /\ \A type \in {"mcq", "fill-in-the-blank", "match", "written"} :
          \E i \in QuestionsOfType(type) : ~IsAnswered(i)
    /\ score >= 1

\* C9: the assessment of n terms holds min(pool size, min(floor(n*1.2)+3, 25))
\* questions, never more than 25, each of them a question of the pool (15 is the
\* target for n = 10).
C9_QuestionCount ==
    (activeModal = "assessment" /\ status = "taking") =>
        LET n == Len(modalData)
            pool == questionPool(modalData, tape).questions
            target == Min(((6 * n) \div 5) + 3, 25)
        IN /\ Len(assessmentData) <= target
           /\ Len(assessmentData) <= 25
           /\ Len(assessmentData) = Min(Len(pool), target)
           /\ n = 10 => target = 15
           /\ \A i \in 1..Len(assessmentData) :
                 \E k \in 1..Len(pool) : pool[k] = assessmentData[i]
           /\ \A i, j \in 1..Len(assessmentData) :
                 assessmentData[i] = assessmentData[j] => i = j

\* the pool of 20 terms is larger than the cap
C9_Witness ==
    /\ activeModal = "assessment"
    /\ status = "taking"
    /\ Len(modalData) = 20
    /\ Len(questionPool(modalData, tape).questions) > 27
    /\ Len(assessmentData) = 25

IsMatchOfFirstFour(q, shuffledTerms) ==
    /\ Len(q.items) = 4
    /\ Len(q.targets) = 4
    /\ \A i \in 1..4 :
          /\ q.items[i].term = shuffledTerms[i].term
          /\ q.targets[i].definition = shuffledTerms[i].meanings[1].definition
          /\ q.correctPairs[q.items[i].id] = q.targets[i].id
    /\ DOMAIN q.correctPairs = {q.items[i].id : i \in 1..4}
    /\ Cardinality(DOMAIN q.correctPairs) = 4
    /\ Cardinality({q.correctPairs[k] : k \in DOMAIN q.correctPairs}) = 4
    /\ {q.correctPairs[k] : k \in DOMAIN q.correctPairs}
          = {q.targets[i].id : i \in 1..4}

\* C10: for 4 terms or more the pool starts with one match question of 4 items
\* and 4 targets, built in order from the first 4 shuffled terms, whose
\* correctPairs is a bijection pairing each item with the target of its own term;
\* a match question that is part of the assessment is that question.
C10_MatchBuiltFromFirstFour ==
    (activeModal = "assessment" /\ status = "taking" /\ Len(modalData) >= 4) =>
        LET pool == questionPool(modalData, tape).questions
            shuffledTerms == shuffledTermsOf(modalData, tape)
        IN /\ pool[1].type = "match"
           /\ IsMatchOfFirstFour(pool[1], shuffledTerms)
           /\ \A i \in 2..Len(pool) : pool[i].type # "match"
           /\ \A i \in QuestionsOfType("match") :
                 IsMatchOfFirstFour(assessmentData[i], shuffledTerms)

\* an assessment of 5 terms or more that shows its match question
C10_Witness ==
    /\ activeModal = "assessment"
    /\ status = "taking"
    /\ Len(modalData) >= 5
    /\ QuestionsOfType("match") # {}
    /\ shuffledTermsOf(modalData, tape) # modalData

\* the call of generateAssessmentFromTerms the open assessment was composed by
Composed == lastCall.fn = "generateAssessmentFromTerms"

HasDistinctTexts(terms) ==
    \A i, j \in 1..Len(terms) : terms[i].term = terms[j].term => i = j

McqsOf(pool, text) ==
    {k \in 1..Len(pool) : pool[k].type = "mcq" /\ pool[k].correctAnswer = text}

\* options holds 4 entries: the text once, and 3 distinct texts of other terms
IsMcqOptionsOf(options, text, terms) ==
    /\ Len(options) = 4
    /\ Occurrences(options, text) = 1
    /\ \A i \in 1..4 : options[i] \in TextsOf(terms)
    /\ Cardinality({options[i] : i \in 1..4}) = 4

\* C11: composing from 4 or more terms of pairwise distinct texts builds, for
\* each term, one mcq question whose correctAnswer is the term's text and whose
\* 4 options are that text, once, and 3 pairwise distinct texts of other terms.
C11_McqPerTerm ==
    (Composed /\ Len(lastCall.terms) >= 4 /\ HasDistinctTexts(lastCall.terms)) =>
        /\ ~lastCall.result.threw
        /\ LET pool == questionPool(lastCall.terms, tape).questions
           IN \A i \in 1..Len(lastCall.terms) :
                 LET text == lastCall.terms[i].term
                 IN /\ Cardinality(McqsOf(pool, text)) = 1
                    /\ \A k \in McqsOf(pool, text) :
                          IsMcqOptionsOf(pool[k].options, text, lastCall.terms)

\* C11 for the calls that return
C11_McqPerTermWhenReturned ==
    (Composed /\ ~lastCall.result.threw) => C11_McqPerTerm

C11_ReturnedWitness ==
    /\ Composed /\ ~lastCall.result.threw
    /\ Len(lastCall.terms) >= 5 /\ HasDistinctTexts(lastCall.terms)

\* the texts of the input terms that differ from the given text
DistractorTexts(terms, text) == TextsOf(terms) \ {text}

\* C12: a term with fewer than 3 distinct distractor texts among the other input
\* terms gets no mcq question, and a list of fewer than 4 terms gets none at all.
C12_NoMcqWithoutDistractors ==
    (Composed /\ ~lastCall.result.threw) =>
        LET terms == lastCall.terms
            pool == questionPool(terms, tape).questions
        IN \A i \in 1..Len(terms) :
              (Len(terms) < 4 \/ Cardinality(DistractorTexts(terms, terms[i].term)) < 3)
                  => McqsOf(pool, terms[i].term) = {}

\* the half of C12 about short lists
C12_NoMcqBelowFourTerms ==
    (Composed /\ ~lastCall.result.threw /\ Len(lastCall.terms) < 4) =>
        \A k \in 1..Len(questionPool(lastCall.terms, tape).questions) :
            questionPool(lastCall.terms, tape).questions[k].type # "mcq"

\* text occurs at s[i], letters compared without case
OccursAt(s, i, text) ==
    /\ i + Len(text) - 1 <= Len(s)
    /\ \A k \in 1..Len(text) : toLowerCaseChar(s[i + k - 1]) = toLowerCaseChar(text[k])

\* s from its i-th character on, every occurrence of the literal text blanked
RECURSIVE LiteralBlanked(_, _, _)
LiteralBlanked(s, i, text) ==
    IF i > Len(s) THEN <<>>
    ELSE IF text # <<>> /\ OccursAt(s, i, text)
         THEN Blank \o LiteralBlanked(s, i + Len(text), text)
    ELSE <<s[i]>> \o LiteralBlanked(s, i + 1, text)

\* the questions of the pool with the given id
WithId(pool, id) == {k \in 1..Len(pool) : pool[k].id = id}

\* C13: the fill-in-the-blank question of a term with a first example shows that
\* example without its '**' markers and with every occurrence of the term's
\* literal text, compared without case, replaced by '_____'; its correctAnswer
\* is the term text.
C13_FillSentenceBlanksLiteralText ==
    (Composed /\ ~lastCall.result.threw) =>
        LET shuffledTerms == shuffledTermsOf(lastCall.terms, tape)
            pool == questionPool(lastCall.terms, tape).questions
        IN \A index \in 0..(Len(shuffledTerms) - 1) :
              LET term == shuffledTerms[index + 1]
              IN exampleIsTruthy(term) =>
                    /\ Cardinality(WithId(pool, <<"fill", index>>)) = 1
                    /\ \A k \in WithId(pool, <<"fill", index>>) :
                          /\ pool[k].text
                                = LiteralBlanked(stripEmphasis(firstExample(term)), 1,
                                                 term.term)
                          /\ pool[k].correctAnswer = term.term

\* the same for the terms whose text holds no '.' and no '+'
C13_FillSentenceOfPlainText ==
    (Composed /\ ~lastCall.result.threw) =>
        LET shuffledTerms == shuffledTermsOf(lastCall.terms, tape)
            pool == questionPool(lastCall.terms, tape).questions
        IN \A index \in 0..(Len(shuffledTerms) - 1) :
              LET term == shuffledTerms[index + 1]
              IN (exampleIsTruthy(term)
                    /\ \A c \in 1..Len(term.term) : term.term[c] \notin {".", "+"}) =>
                    /\ Cardinality(WithId(pool, <<"fill", index>>)) = 1
                    /\ \A k \in WithId(pool, <<"fill", index>>) :
                          /\ pool[k].text
                                = LiteralBlanked(stripEmphasis(firstExample(term)), 1,
                                                 term.term)
                          /\ pool[k].correctAnswer = term.term

\* the number of blank markers in s from its i-th character on
RECURSIVE BlankCount(_, _)
BlankCount(s, i) ==
    IF i > Len(s) THEN 0
    ELSE IF IsPrefixAt(s, i, Blank) THEN 1 + BlankCount(s, i + Len(Blank))
    ELSE BlankCount(s, i + 1)

FillQuestionsOf(pool) == {k \in 1..Len(pool) : pool[k].type = "fill-in-the-blank"}

\* C14: the sentence of every fill-in-the-blank question holds exactly one blank
\* marker '_____'.
C14_ExactlyOneBlank ==
    (Composed /\ ~lastCall.result.threw) =>
        LET pool == questionPool(lastCall.terms, tape).questions
        IN \A k \in FillQuestionsOf(pool) : BlankCount(pool[k].text, 1) = 1

\* an example that does not name the term
C14_NoBlankWitness ==
    /\ Composed /\ ~lastCall.result.threw
    /\ \E k \in FillQuestionsOf(questionPool(lastCall.terms, tape).questions) :
          BlankCount(questionPool(lastCall.terms, tape).questions[k].text, 1) = 0

\* an example that names the term twice
C14_TwoBlanksWitness ==
    /\ Composed /\ ~lastCall.result.threw
    /\ \E k \in FillQuestionsOf(questionPool(lastCall.terms, tape).questions) :
          BlankCount(questionPool(lastCall.terms, tape).questions[k].text, 1) = 2

\* the term holds an example sentence under one of its explored meanings
HasStoredExample(term) ==
    \E m \in DOMAIN term.details : Len(term.details[m].examples) >= 1

\* C15: a term gets a fill-in-the-blank question if and only if it holds at least
\* one stored example sentence, under any of its explored meanings; its written
\* question is built either way.
C15_FillIffStoredExample ==
    (Composed /\ ~lastCall.result.threw) =>
        LET shuffledTerms == shuffledTermsOf(lastCall.terms, tape)
            pool == questionPool(lastCall.terms, tape).questions
        IN \A index \in 0..(Len(shuffledTerms) - 1) :
              /\ WithId(pool, <<"fill", index>>) # {}
                    <=> HasStoredExample(shuffledTerms[index + 1])
              /\ WithId(pool, <<"written", index>>) # {}

\* the same with the example of meaning 0 in the place of any example
C15_FillIffFirstExample ==
    (Composed /\ ~lastCall.result.threw) =>
        LET shuffledTerms == shuffledTermsOf(lastCall.terms, tape)
            pool == questionPool(lastCall.terms, tape).questions
        IN \A index \in 0..(Len(shuffledTerms) - 1) :
              /\ WithId(pool, <<"fill", index>>) # {}
                    <=> exampleIsTruthy(shuffledTerms[index + 1])
              /\ WithId(pool, <<"written", index>>) # {}

\* the written question the claim describes for a term
IsWrittenOf(q, term) ==
    /\ q.type = "written"
    /\ q.text = term.term
    /\ q.modelAnswer
          = IF hasFirstExample(term) /\ firstExample(term) # <<>>
            THEN term.details[0].examples[1]
            ELSE <<"e.g., A sentence demonstrating the use of ">> \o term.term \o <<".">>

WrittenPerTerm(terms, t) ==
    LET shuffledTerms == shuffledTermsOf(terms, t)
        pool == questionPool(terms, t).questions
    IN /\ Cardinality({k \in 1..Len(pool) : pool[k].type = "written"}) = Len(terms)
       /\ \A index \in 0..(Len(shuffledTerms) - 1) :
             /\ Cardinality(WithId(pool, <<"written", index>>)) = 1
             /\ \A k \in WithId(pool, <<"written", index>>) :
                   IsWrittenOf(pool[k], shuffledTerms[index + 1])

\* C16: whatever the data of the input terms, the pool holds exactly one written
\* question for each of them, whose modelAnswer is the term's first stored
\* example, or the templated sentence naming the term when it has none.
C16_WrittenPerTerm ==
    Composed => (~lastCall.result.threw /\ WrittenPerTerm(lastCall.terms, tape))

\* C16 for the calls that return
C16_WrittenPerTermWhenReturned ==
    (Composed /\ ~lastCall.result.threw) => WrittenPerTerm(lastCall.terms, tape)

\* C17: generateAssessmentFromTerms is total: for any term list, terms without
\* meanings or without details included, it returns an AssessmentSet, leaving
\* out only the question types whose precondition fails.
C17_ComposerIsTotal ==
    Composed =>
        /\ ~lastCall.result.threw
        /\ Len(lastCall.result.questions) >= 1

\* a call that returns for terms without details
C17_ReturnsWithoutDetailsWitness ==
    /\ Composed /\ ~lastCall.result.threw
    /\ \E i \in 1..Len(lastCall.terms) : lastCall.terms[i].details = NoDetails
    /\ Len(lastCall.terms) >= 4

\* a term without meanings in a list of fewer than 4 terms does no harm
C17_ReturnsWithoutMeaningsWitness ==
    /\ Composed /\ ~lastCall.result.threw
    /\ \E i \in 1..Len(lastCall.terms) : lastCall.terms[i].meanings = <<>>

ComposedNothing ==
    /\ Composed
    /\ ~lastCall.result.threw
    /\ lastCall.result.questions = <<>>

\* C18: when the composer returns an AssessmentSet without questions, the modal
\* is closed without entering 'taking': no assessment data is set, and nothing
\* can be answered or submitted in that session.
C18_EmptyAssessmentAborts ==
    ComposedNothing =>
        /\ activeModal = "none"
        /\ status # "taking"
        /\ assessmentData = Null
        /\ answers = <<>>
        /\ ~ENABLED answerMcq("session")
        /\ ~ENABLED answerText("session")
        /\ ~ENABLED answerMatch("session")
        /\ ~ENABLED handleSubmit

\* the modal was opened on terms and closed by the effect
C18_Witness ==
    /\ ComposedNothing
    /\ Len(lastCall.terms) >= 1
    /\ lastCall.terms = modalData
    /\ activeModal = "none"

HasDistinctIds(questions) ==
    \A i, j \in 1..Len(questions) : questions[i].id = questions[j].id => i = j

\* C19: no two questions of an AssessmentSet returned by
\* generateAssessmentFromTerms have the same id, whatever the term list.
C19_UniqueIds ==
    (Composed /\ ~lastCall.result.threw) =>
        /\ HasDistinctIds(lastCall.result.questions)
        /\ HasDistinctIds(questionPool(lastCall.terms, tape).questions)

\* a returned set with questions of all four types, for terms of one text
C19_Witness ==
    /\ Composed /\ ~lastCall.result.threw
    /\ Len(lastCall.terms) >= 4
    /\ ~HasDistinctTexts(lastCall.terms)
    /\ \A type \in {"mcq", "fill-in-the-blank", "match", "written"} :
          Cardinality({i \in 1..Len(lastCall.result.questions) :
                          lastCall.result.questions[i].type = type}) >= 1
    /\ Cardinality({i \in 1..Len(lastCall.result.questions) :
                       lastCall.result.questions[i].type = "written"}) >= 2

Shuffled == lastCall.fn = "shuffleArray"

\* the orderings of the elements of s
PermutationsOf(s) ==
    {p \in [1..Len(s) -> {s[i] : i \in 1..Len(s)}] : IsPermutationOf(p, s)}

\* C20: shuffleArray(S) has the length of S and holds the same elements as often
\* as S does, whatever the draws; every ordering of S is the result for some
\* draws; shuffleArray([]) is [].
C20_ShuffleIsPermutation ==
    Shuffled =>
        /\ Len(lastCall.result) = Len(lastCall.array)
        /\ IsPermutationOf(lastCall.result, lastCall.array)
        /\ \A p \in PermutationsOf(lastCall.array) :
              \E t \in DrawsFor(lastCall.array) : shuffleArray(lastCall.array, t, 0) = p
        /\ lastCall.array = <<>> => lastCall.result = <<>>

\* three different elements that came back in reverse order
C20_Witness ==
    /\ Shuffled
    /\ lastCall.array = <<"x", "y", "z">>
    /\ lastCall.result = <<"z", "y", "x">>

\* a sequence with a repeated element
C20_RepeatedElementWitness ==
    /\ Shuffled
    /\ lastCall.array = <<"x", "x", "y">>
    /\ lastCall.result = <<"y", "x", "x">>

C20_EmptyWitness ==
    /\ Shuffled
    /\ lastCall.array = <<>>

\* C21: shuffleArray leaves its input as it was, element for element, and
\* returns a new array.
C21_ShuffleKeepsInput ==
    Shuffled =>
        /\ lastCall.arrayAfter = lastCall.array
        /\ lastCall.isNewArray

\* the input of three different elements is still in its order after a call
\* that returned another order
C21_Witness ==
    /\ Shuffled
    /\ lastCall.array = <<"x", "y", "z">>
    /\ lastCall.result = <<"y", "z", "x">>
    /\ lastCall.arrayAfter = <<"x", "y", "z">>

\* the part of C21 about generateAssessmentFromTerms: the term list of the
\* caller is the list the call was made with
C21_ComposeKeepsTerms ==
    Composed => modalData = lastCall.terms

C21_ComposeWitness ==
    /\ Composed
    /\ Len(modalData) >= 4
    /\ shuffledTermsOf(lastCall.terms, tape) # lastCall.terms

\* C22: grading changes neither the questions nor the answers, and the score is
\* a function of the two: grading the questions and answers as they are after
\* the submission gives the score again.
C22_GradingIsPure ==
    [][/\ (status = "taking" /\ status' = "submitted") =>
             /\ assessmentData' = assessmentData
             /\ answers' = answers
             /\ score' = correctCount(assessmentData, answers)
       /\ status' = "submitted" => score' = correctCount(assessmentData', answers')]_vars

\* a submitted assessment with a correct and an incorrect answer
C22_Witness ==
    /\ activeModal = "assessment"
    /\ status = "submitted"
    /\ Len(assessmentData) >= 3
    /\ Cardinality(DOMAIN answers) >= 2
    /\ score >= 1
    /\ score < Cardinality(DOMAIN answers)

ResultsWithoutWrongAnswers ==
    /\ activeModal = "quiz"
    /\ gameState = "results"
    /\ wrongAnswers = <<>>

\* C23: in 'results' with no wrong answer there is no redeem: the only step from
\* there closes the quiz, and nothing is logged by it.
C23_NoRedeemWithoutWrongAnswers ==
    [][ResultsWithoutWrongAnswers =>
          /\ activeModal' = "none"
          /\ completions' = completions
          /\ quizHistory' = quizHistory
          /\ ~ENABLED Redeem
          /\ ~ENABLED NextQuestion]_vars

\* a quiz of 3 questions, all answered correctly
C23_Witness ==
    /\ ResultsWithoutWrongAnswers
    /\ Len(shuffledQuestions) = 3
    /\ runLog = <<TRUE, TRUE, TRUE>>

\* the same after a redeem run
C23_RedeemedWitness ==
    /\ ResultsWithoutWrongAnswers
    /\ Len(completions) = 2
    /\ Len(shuffledQuestions) < Len(modalData.questions)

\* C24: every library key equals the lower-cased term text of the Term stored under it
\* (the keys of an object are unique by construction).
C24_KeyIsLowerCasedTerm ==
    \A termKey \in DOMAIN library : termKey = toLowerCase(library[termKey].term)

\* C25: a library term's status and masteredTimestamp are those set by the latest status
\* change made to it, whatever details updates arrived since.
C25_StatusChangeSticks ==
    \A termKey \in DOMAIN lastStatusChange \cap DOMAIN library :
        /\ library[termKey].status = lastStatusChange[termKey].status
        /\ library[termKey].masteredTimestamp = lastStatusChange[termKey].masteredTimestamp

\* C29: localStorage 'vocabLibrary' is not written before the load attempt has finished
\* (isLibraryLoaded is true at the first write, and the saved item is untouched until
\* then), and when a saved library was loaded the first value written is that library,
\* migrated.
C29_FirstWriteAfterLoad ==
    /\ firstWrite.written => isLibraryLoaded
    /\ ~isLibraryLoaded => (~firstWrite.written /\ vocabLibrary = savedAtMount)
    /\ (firstWrite.written /\ savedAtMount.kind = "json") =>
           firstWrite.value = migrated(savedAtMount.value, firstWrite.time)

\* C29: a saved library whose term had no status was loaded, and the first write stored it
\* with the status the migration gave it.
C29_Witness ==
    /\ firstWrite.written
    /\ savedAtMount.kind = "json"
    /\ \E termKey \in DOMAIN savedAtMount.value :
           /\ savedAtMount.value[termKey].status = "undefined"
           /\ termKey \in DOMAIN firstWrite.value
           /\ firstWrite.value[termKey].status = "learning"
    /\ vocabLibrary # JsonItem(firstWrite.value)

MarkedCorrect ==
    {i \in 1..Len(assessmentData) :
        viewIsCorrect(assessmentData[i], status = "submitted",
                      answerOf(answers, assessmentData[i]))}

\* C26: after handleSubmit the score is the number of questions whose view shows the
\* question as correct, and it lies between 0 and the number of questions.
C26_ScoreIsMarkedCorrect ==
    status = "submitted" =>
        /\ score = Cardinality(MarkedCorrect)
        /\ score \in 0..Len(assessmentData)

\* C26: a fill-in-the-blank answer that differs from the term text in case or spacing was
\* submitted and counted.
C26_Witness ==
    /\ status = "submitted"
    /\ score = 1
    /\ \E i \in MarkedCorrect :
           /\ assessmentData[i].type = "fill-in-the-blank"
           /\ answers[assessmentData[i].id].value # assessmentData[i].correctAnswer

\* C26: a match question with one item left unpaired and the others right was submitted.
C26_PartialMatchWitness ==
    /\ status = "submitted"
    /\ score = 0
    /\ \E i \in 1..Len(assessmentData) :
           LET q == assessmentData[i]
           IN /\ q.type = "match"
              /\ q.id \in DOMAIN answers
              /\ Cardinality(DOMAIN answers[q.id].value) + 1 = Cardinality(DOMAIN q.correctPairs)
              /\ \A itemId \in DOMAIN answers[q.id].value :
                     answers[q.id].value[itemId] = q.correctPairs[itemId]

\* C27: whenever generateAssessmentFromTerms returns for the (non-empty) term list of the
\* modal, it returns at least one question, and the modal is in 'taking' with those
\* questions: the abort for a set without questions is not taken.
C27_ReturnsAQuestion ==
    (Composed /\ ~lastCall.result.threw) =>
        /\ Len(lastCall.terms) >= 1
        /\ Len(lastCall.result.questions) >= 1
        /\ activeModal = "assessment"
        /\ status = "taking"
        /\ assessmentData = lastCall.result.questions

\* C27: one unexplored term was assessed: the set holds its written question alone.
C27_Witness ==
    /\ Composed
    /\ ~lastCall.result.threw
    /\ Len(lastCall.terms) = 1
    /\ lastCall.terms[1].details = NoDetails
    /\ Len(lastCall.result.questions) = 1
    /\ status = "taking"

TargetOf(n) == Min(((6 * n) \div 5) + 3, 25)

HaveMeanings(terms) == \A i \in 1..Len(terms) : terms[i].meanings # <<>>

C28_FewerWitness ==
    /\ Composed
    /\ ~lastCall.result.threw
    /\ Len(lastCall.terms) = 4
    /\ HaveMeanings(lastCall.terms)
    /\ Len(lastCall.result.questions) = 5
    /\ TargetOf(4) = 7

\* C30: the persisted quiz history never holds more than 50 attempts, and every completed
\* quiz appends its attempt as the last one: the earlier attempts keep their order, and
\* from a history of 50 the oldest alone is dropped.
C30_HistoryKeepsLastFifty ==
    /\ [](Len(quizHistory) <= 50)
    /\ [][/\ Len(completions') = Len(completions) + 1
          /\ Last(quizHistory') = Last(completions')
          /\ IF Len(quizHistory) < 50
             THEN quizHistory' = Append(quizHistory, Last(completions'))
             ELSE /\ Len(quizHistory') = 50
                  /\ \A i \in 1..49 : quizHistory'[i] = quizHistory[i + 1]]_vars

\* C30: two quizzes were completed over a history of 50: the two oldest attempts are
\* gone, the new ones are last.
C30_Witness ==
    /\ Len(completions) = 2
    /\ Len(quizHistory) = 50
    /\ quizHistory[1] = PastAttempt(3)
    /\ quizHistory[48] = PastAttempt(50)
    /\ quizHistory[49] = completions[1]
    /\ quizHistory[50] = completions[2]

====
